---------------------------- MODULE Spec2Model ----------------------------
(***************************************************************************)
(* A model of the entity-matching engine of pers_dashboard:                *)
(*   src/product_er_toolkit.py       name canonicalisation, part-number    *)
(*                                   variants, Levenshtein / Jaro-Winkler, *)
(*                                   BK-tree, generate_candidates          *)
(*   src/manufacturer_alias_manager.py  the manufacturer alias registry    *)
(*                                                                         *)
(* Python strings are sequences of one-character strings (Chars("3M") is   *)
(* <<"3","M">>).  A character outside ASCII is a symbolic token: "e'" is   *)
(* U+00E9, "E'" is U+00C9 and "^'" is the combining acute accent U+0301.   *)
(* Each area of the program has its own variables and its own              *)
(* specification; the variables of the other areas stay at their idle      *)
(* values.                                                                 *)
(***************************************************************************)
EXTENDS Integers, Sequences, FiniteSets, TLC

VARIABLES
    \* canonicalize_name called once and then on its own result
    cn_in, cn_pc, cn_out, cn_out2,
    \* the ManufacturerAliasManager object: its four dicts, its options and
    \* its stats
    manager,
    \* load_aliases: rows of the source still to read, rows of the source
    \* never read because the load stopped, the (primary, alias) pairs of
    \* the rows stored so far, what the last operation was
    al_remaining, al_dropped, al_claimed, al_last, al_manual,
    \* a BKTree (tree is None when empty), the terms added to it, the last
    \* search and what it returned
    bk_tree, bk_added, bk_query, bk_result,
    \* pn_variants called on a part number and then on a respelling of it:
    \* the part number, the manufacturer context, what
    \* _generate_manufacturer_prefixes returns in this process, the variants,
    \* the decomposition of step 2, the respelling and its variants
    pn_pc, pn_in, pn_mfr, pn_gen, pn_out, pn_parts, pn_in2, pn_out2,
    \* generate_candidates: the row of df_a, the catalog df_b, the
    \* configuration; the cache of _generate_manufacturer_prefixes, the rows
    \* of df_b with their added columns, the BK-tree; the additions made to
    \* cand_scores, cand_scores, a_to_candidates[idx_a]; what an earlier call
    \* with the same arguments returned
    cand_pc, cand_a, cand_b, cand_cfg, cand_cache, cand_rows, cand_bk,
    cand_events, cand_scores, cand_top, cand_prev,
    \* build_pair_features: the two records, filter_short_variants, and the
    \* features returned
    feat_pc, feat_a, feat_b, feat_filter, feat_out,
    \* is_short_variant: the original part number, the variant, the result
    sv_pc, sv_original, sv_variant, sv_out,
    \* the overall score of a pair: the manufacturers of the two records, the
    \* other signals of the pair, the alias registry, and the score of the
    \* compare endpoint and of DatabaseQuery.compare_products
    sc_a, sc_b, sc_sig, sc_registry, sc_api, sc_db, sc_features,
    \* rare_tokens: the texts, min_df, and the tokens that got a rarity
    rt_texts, rt_min_df, rt_out,
    \* calculate_pn_match_weight: the two original part numbers, the matching variants and the weight; a second set of matching variants and its weight
    mw_a, mw_b, mw_matching, mw_out, mw_more, mw_out2,
    \* the stripping loops of pn_variants: the loop that runs, the stripped part number, the manufacturer prefix found, and current, suffixes and the number of iterations of the loop
    lp_pc, lp_original, lp_prefix, lp_current, lp_suffixes, lp_steps

canonVars == <<cn_in, cn_pc, cn_out, cn_out2>>
aliasVars == <<manager, al_remaining, al_dropped, al_claimed, al_last, al_manual>>
bkVars == <<bk_tree, bk_added, bk_query, bk_result>>
pnVars == <<pn_pc, pn_in, pn_mfr, pn_gen, pn_out, pn_parts, pn_in2, pn_out2>>
candVars == <<cand_pc, cand_a, cand_b, cand_cfg, cand_cache, cand_rows, cand_bk,
              cand_events, cand_scores, cand_top, cand_prev>>
featVars == <<feat_pc, feat_a, feat_b, feat_filter, feat_out>>
shortVars == <<sv_pc, sv_original, sv_variant, sv_out>>
scoreVars == <<sc_a, sc_b, sc_sig, sc_registry, sc_api, sc_db, sc_features>>
rareVars == <<rt_texts, rt_min_df, rt_out>>
weightVars == <<mw_a, mw_b, mw_matching, mw_out, mw_more, mw_out2>>
loopVars == <<lp_pc, lp_original, lp_prefix, lp_current, lp_suffixes, lp_steps>>
vars == <<canonVars, aliasVars, bkVars, pnVars, candVars, featVars, shortVars, scoreVars, rareVars, weightVars, loopVars>>

\* what the operations of one area leave alone
canonOthers == <<aliasVars, bkVars, pnVars, candVars, featVars, shortVars, scoreVars, rareVars, weightVars, loopVars>>
aliasOthers == <<canonVars, bkVars, pnVars, candVars, featVars, shortVars, scoreVars, rareVars, weightVars, loopVars>>
bkOthers == <<canonVars, aliasVars, pnVars, candVars, featVars, shortVars, scoreVars, rareVars, weightVars, loopVars>>
pnOthers == <<canonVars, aliasVars, bkVars, candVars, featVars, shortVars, scoreVars, rareVars, weightVars, loopVars>>
candOthers == <<canonVars, aliasVars, bkVars, pnVars, featVars, shortVars, scoreVars, rareVars, weightVars, loopVars>>
featOthers == <<canonVars, aliasVars, bkVars, pnVars, candVars, shortVars, scoreVars, rareVars, weightVars, loopVars>>
shortOthers == <<canonVars, aliasVars, bkVars, pnVars, candVars, featVars, scoreVars, rareVars, weightVars, loopVars>>
scoreOthers == <<canonVars, aliasVars, bkVars, pnVars, candVars, featVars, shortVars, rareVars, weightVars, loopVars>>
rareOthers == <<canonVars, aliasVars, bkVars, pnVars, candVars, featVars, shortVars, scoreVars, weightVars, loopVars>>
weightOthers == <<canonVars, aliasVars, bkVars, pnVars, candVars, featVars, shortVars, scoreVars, rareVars, loopVars>>
loopOthers == <<canonVars, aliasVars, bkVars, pnVars, candVars, featVars, shortVars, scoreVars, rareVars, weightVars>>

-----------------------------------------------------------------------------
(* Strings *)

Chars(s) == [i \in 1..Len(s) |-> SubSeq(s, i, i)]

RECURSIVE Flatten(_)
Flatten(ss) == IF ss = <<>> THEN <<>> ELSE Head(ss) \o Flatten(Tail(ss))

\* every concatenation of at most n chunks
ChunkStrings(chunks, n) ==
    { Flatten(cs) : cs \in UNION { [1..k -> chunks] : k \in 0..n } }

LowerLetters == Chars("abcdefghijklmnopqrstuvwxyz")
UpperLetters == Chars("ABCDEFGHIJKLMNOPQRSTUVWXYZ")
Digits == { "0", "1", "2", "3", "4", "5", "6", "7", "8", "9" }
LowerSet == { LowerLetters[i] : i \in 1..26 }
UpperSet == { UpperLetters[i] : i \in 1..26 }

IsLower(c) == c \in LowerSet
IsUpper(c) == c \in UpperSet
IsLetter(c) == c \in LowerSet \cup UpperSet
IsDigit(c) == c \in Digits
IsSpace(c) == c = " "

\* str.upper() on one character
UpperChar(c) ==
    IF c \in LowerSet THEN UpperLetters[CHOOSE i \in 1..26 : LowerLetters[i] = c]
    ELSE IF c = "e'" THEN "E'"
    ELSE c

\* str.lower() on one character
LowerChar(c) ==
    IF c \in UpperSet THEN LowerLetters[CHOOSE i \in 1..26 : UpperLetters[i] = c]
    ELSE IF c = "E'" THEN "e'"
    ELSE c

Upper(s) == [i \in 1..Len(s) |-> UpperChar(s[i])]
Lower(s) == [i \in 1..Len(s) |-> LowerChar(s[i])]

\* str.replace(c, r) for a one-character c
RECURSIVE ReplaceChar(_, _, _)
ReplaceChar(s, c, r) ==
    IF s = <<>> THEN <<>>
    ELSE (IF Head(s) = c THEN r ELSE <<Head(s)>>) \o ReplaceChar(Tail(s), c, r)

\* re.sub(r"[class]+", r, s): every maximal run of characters of the class
\* becomes r
RECURSIVE SubRuns(_, _, _)
SubRuns(s, InClass(_), r) ==
    IF s = <<>> THEN <<>>
    ELSE IF InClass(Head(s))
         THEN LET rest == Tail(s)
                  k == CHOOSE n \in 0..Len(rest) :
                         /\ \A i \in 1..n : InClass(rest[i])
                         /\ (n < Len(rest) => ~InClass(rest[n + 1]))
              IN  r \o SubRuns(SubSeq(rest, k + 1, Len(rest)), InClass, r)
         ELSE <<Head(s)>> \o SubRuns(Tail(s), InClass, r)

\* str.strip()
RECURSIVE LStrip(_)
LStrip(s) == IF s # <<>> /\ IsSpace(Head(s)) THEN LStrip(Tail(s)) ELSE s
RECURSIVE RStrip(_)
RStrip(s) ==
    IF s # <<>> /\ IsSpace(s[Len(s)]) THEN RStrip(SubSeq(s, 1, Len(s) - 1)) ELSE s
Strip(s) == RStrip(LStrip(s))

\* str.split(): the maximal runs of non-whitespace characters
RECURSIVE Split(_)
Split(s) ==
    LET t == LStrip(s)
    IN  IF t = <<>> THEN <<>>
        ELSE LET k == CHOOSE n \in 1..Len(t) :
                        /\ \A i \in 1..n : ~IsSpace(t[i])
                        /\ (n < Len(t) => IsSpace(t[n + 1]))
             IN  <<SubSeq(t, 1, k)>> \o Split(SubSeq(t, k + 1, Len(t)))

\* sep.join(tokens)
RECURSIVE Join(_, _)
Join(sep, tokens) ==
    IF tokens = <<>> THEN <<>>
    ELSE IF Len(tokens) = 1 THEN tokens[1]
    ELSE tokens[1] \o sep \o Join(sep, Tail(tokens))

StartsWith(s, p) == Len(p) <= Len(s) /\ SubSeq(s, 1, Len(p)) = p
EndsWith(s, p) == Len(p) <= Len(s) /\ SubSeq(s, Len(s) - Len(p) + 1, Len(s)) = p
Contains(s, p) == \E i \in 0..(Len(s) - Len(p)) : SubSeq(s, i + 1, i + Len(p)) = p

\* Python values that are not strings
PyStr(s) == [t |-> "str", v |-> s]
PyNone == [t |-> "None", v |-> <<>>]
PyNaN == [t |-> "float", v |-> Chars("nan")]
IsStr(x) == x.t = "str"

-----------------------------------------------------------------------------
(* Name canonicaliser *)

CORP_SUFFIXES ==
    { Chars("INC"), Chars("INC."), Chars("LLC"), Chars("L.L.C."), Chars("LTD"),
      Chars("LTD."), Chars("LIMITED"), Chars("CO"), Chars("CO."), Chars("CORP"),
      Chars("CORP."), Chars("CORPORATION"), Chars("GMBH"), Chars("AG"),
      Chars("BV"), Chars("B.V."), Chars("S.A."), Chars("SAS"), Chars("PLC"),
      Chars("P.L.C."), Chars("PTE"), Chars("PTY"), Chars("AB"), Chars("OY"),
      Chars("KK"), Chars("K.K."), Chars("SA"), Chars("S.P.A."), Chars("SRL"),
      Chars("S.R.L."), Chars("TECHNOLOGIES"), Chars("SYSTEMS"),
      Chars("SOLUTIONS"), Chars("SERVICES"), Chars("ENTERPRISES"),
      Chars("INDUSTRIES"), Chars("INTERNATIONAL"), Chars("WORLDWIDE"),
      Chars("GLOBAL"), Chars("GROUP"), Chars("COMPANY"), Chars("COMPANIES") }

NotAZ09Space(c) == ~(IsUpper(c) \/ IsDigit(c) \/ c = " ")

\* while tokens and tokens[-1] in CORP_SUFFIXES: tokens = tokens[:-1]
RECURSIVE DropCorpSuffixes(_)
\* the loop written as an "if": only one trailing suffix is removed
DropCorpSuffixes_If(tokens) ==
    IF tokens # <<>> /\ tokens[Len(tokens)] \in CORP_SUFFIXES
    THEN SubSeq(tokens, 1, Len(tokens) - 1)
    ELSE tokens
DropCorpSuffixes(tokens) ==
    IF tokens # <<>> /\ tokens[Len(tokens)] \in CORP_SUFFIXES
    THEN DropCorpSuffixes(SubSeq(tokens, 1, Len(tokens) - 1))
    ELSE tokens

\* canonicalize_name on a string
CanonicalizeStr(s) ==
    LET x1 == ReplaceChar(Upper(s), "&", Chars(" AND "))
        x2 == SubRuns(x1, NotAZ09Space, <<" ">>)
        x3 == Strip(SubRuns(x2, IsSpace, <<" ">>))
    IN  Join(<<" ">>, DropCorpSuffixes(Split(x3)))

\* canonicalize_name on any Python value
canonicalize_name(x) == IF ~IsStr(x) THEN <<>> ELSE CanonicalizeStr(x.v)

\* unicodedata.normalize("NFD", c) and the filter category(c) != "Mn"
Nfd(c) ==
    IF c = "e'" THEN <<"e", "^'">>
    ELSE IF c = "E'" THEN <<"E", "^'">>
    ELSE <<c>>
IsMn(c) == c = "^'"

RECURSIVE StripMarks(_)
StripMarks(s) ==
    IF s = <<>> THEN <<>>
    ELSE LET d == Nfd(Head(s))
         IN  SelectSeq(d, LAMBDA c : ~IsMn(c)) \o StripMarks(Tail(s))

\* the names the bounded inputs below are made of
InputNames ==
    { Chars("3M"), Chars("3m"), Chars("MMM"), Chars("Acme Inc"), Chars("Acme"),
      Chars("Inc"), Chars("3M Company"), Chars("Acme Labs"), Chars("Germany"),
      Chars("--"), Chars("[MMM"), Chars("nan"), Chars("HP") }

\* normalize_manufacturer on a string or None (s = s or "")
normalize_manufacturer(x) ==
    LET s == IF x.t = "None" THEN <<>> ELSE x.v
    IN  CanonicalizeStr(StripMarks(s))

NormMemo == [n \in InputNames |-> normalize_manufacturer(PyStr(n))]

\* a lookup in the memo, the normalisation itself for a string not in it
MemoOr(memo, s) ==
    IF s \in DOMAIN memo THEN memo[s] ELSE normalize_manufacturer(PyStr(s))

\* normalize_manufacturer on a string; the names the inputs are made of are
\* normalized once and looked up afterwards
NormStr(s) == MemoOr(NormMemo, s)

-----------------------------------------------------------------------------
(* Manufacturer alias registry: src/manufacturer_alias_manager.py *)

EmptyDict == [k \in {} |-> {}]
DictSet(d, k, v) == [x \in (DOMAIN d) \cup {k} |-> IF x = k THEN v ELSE d[x]]

SeqToSet(q) == { q[i] : i \in 1..Len(q) }

\* text.split(c) for a one-character c
RECURSIVE SplitOn(_, _)
SplitOn(s, c) ==
    IF \A i \in 1..Len(s) : s[i] # c THEN <<s>>
    ELSE LET k == CHOOSE n \in 1..Len(s) :
                    s[n] = c /\ \A i \in 1..(n - 1) : s[i] # c
         IN  <<SubSeq(s, 1, k - 1)>> \o SplitOn(SubSeq(s, k + 1, Len(s)), c)

\* [x.strip() for x in items if x.strip()]
StrippedNonEmpty(items) ==
    LET stripped == [i \in 1..Len(items) |-> Strip(items[i])]
    IN  SelectSeq(stripped, LAMBDA x : x # <<>>)

\* A cell of the alias table as pandas hands it over: an empty cell is the
\* float NaN, a missing column is absent, anything else is text.  The text of
\* the aliases column is given by what ast.literal_eval makes of it: a list
\* of strings ("list"), a literal that is no list ("scalar"), or no literal
\* at all ("text", which is then split at commas).
CellNaN == [k |-> "nan", items |-> <<>>, v |-> <<>>]
CellAbsent == [k |-> "absent", items |-> <<>>, v |-> <<>>]
CellList(items) == [k |-> "list", items |-> items, v |-> <<>>]
CellScalar == [k |-> "scalar", items |-> <<>>, v |-> <<>>]
CellText(s) == [k |-> "text", items |-> <<>>, v |-> s]

\* str(cell) of a cell that is present
CellStr(cell) == IF cell.k = "nan" THEN Chars("nan") ELSE cell.v

\* _parse_aliases_column raises AttributeError on a cell that is not a string
ParseAliasesRaises(cell) == cell.k = "nan"

StripQuotes(s) ==
    LET IsQ(c) == c \in {"'", "\""}
        RECURSIVE L(_)
        L(x) == IF x # <<>> /\ IsQ(Head(x)) THEN L(Tail(x)) ELSE x
        RECURSIVE R(_)
        R(x) == IF x # <<>> /\ IsQ(x[Len(x)]) THEN R(SubSeq(x, 1, Len(x) - 1)) ELSE x
    IN  R(L(s))

\* _parse_aliases_column on a string cell (row.get('aliases', '') of an
\* absent column is '')
_parse_aliases_column(cell) ==
    CASE cell.k = "absent" -> <<>>
      [] cell.k = "list" -> StrippedNonEmpty(cell.items)
      [] cell.k = "scalar" -> <<>>
      [] cell.k = "text" ->
            IF Strip(cell.v) = <<>> THEN <<>>
            ELSE LET IsBQ(c) == c \in {"[", "]", "'", "\""}
                     RECURSIVE L(_)
                     L(x) == IF x # <<>> /\ IsBQ(Head(x)) THEN L(Tail(x)) ELSE x
                     RECURSIVE R(_)
                     R(x) == IF x # <<>> /\ IsBQ(x[Len(x)])
                             THEN R(SubSeq(x, 1, Len(x) - 1)) ELSE x
                     parts == SplitOn(R(L(cell.v)), ",")
                     cleaned == [i \in 1..Len(parts) |-> StripQuotes(Strip(parts[i]))]
                 IN  SelectSeq(cleaned, LAMBDA x : x # <<>>)

\* _parse_pipe_delimited_string
_parse_pipe_delimited_string(cell) ==
    IF cell.k \in {"nan", "absent"} \/ Strip(cell.v) = <<>> THEN <<>>
    ELSE StrippedNonEmpty(SplitOn(cell.v, "|"))

location_words ==
    { Chars("switzerland"), Chars("germany"), Chars("united kingdom"),
      Chars("canada"), Chars("france"), Chars("italy"), Chars("japan"),
      Chars("netherlands"), Chars("sweden"), Chars("norway"), Chars("denmark"),
      Chars("australia"), Chars("brazil"), Chars("mexico"), Chars("spain"),
      Chars("portugal"), Chars("poland"), Chars("czech"), Chars("hungary"),
      Chars("austria"), Chars("belgium"), Chars("finland"), Chars("ireland") }

product_words ==
    { Chars("corporation"), Chars("inc"), Chars("llc"), Chars("ltd"), Chars("co"),
      Chars("company"), Chars("group"), Chars("holdings"), Chars("enterprises"),
      Chars("international"), Chars("global"), Chars("systems"),
      Chars("technologies"), Chars("solutions"), Chars("services"),
      Chars("products"), Chars("industries") }

\* len(re.sub(r'[^a-zA-Z0-9\s]', '', name))
AlnumSpaceCount(name) ==
    Len(SelectSeq(name, LAMBDA c : IsLetter(c) \/ IsDigit(c) \/ IsSpace(c)))

\* _is_valid_manufacturer_name without the checks against product_words
_is_valid_manufacturer_name_NoSuffixWords(raw) ==
    IF raw = <<>> \/ Len(Strip(raw)) < 3 THEN FALSE
    ELSE /\ ~(2 * AlnumSpaceCount(Strip(raw)) < Len(Strip(raw)))
         /\ \A loc \in location_words : ~Contains(Lower(Strip(raw)), loc)

_is_valid_manufacturer_name(raw) ==
    IF raw = <<>> \/ Len(Strip(raw)) < 3 THEN FALSE
    ELSE LET name == Strip(raw)
             name_lower == Lower(name)
             words == Split(name_lower)
         IN  /\ ~(2 * AlnumSpaceCount(name) < Len(name))
             /\ \A loc \in location_words : ~Contains(name_lower, loc)
             /\ name_lower \notin product_words
             /\ ~(Len(words) = 1 /\ words[1] \in product_words)

\* 'subsidiary_names' in row / 'brands_text' in row
InRow(cell) == cell.k # "absent"
\* pd.notna(row.get(col, ''))
NotNa(cell) == cell.k # "nan"

\* _extract_additional_aliases: the names that pass the filter, and how
\* many subsidiaries and brands it filtered out
SubsidiaryNames(row, subs_on) ==
    IF subs_on /\ InRow(row.subsidiary_names)
    THEN _parse_pipe_delimited_string(row.subsidiary_names) ELSE <<>>
BrandNames(row, brands_on) ==
    IF brands_on /\ InRow(row.brands_text)
    THEN _parse_pipe_delimited_string(row.brands_text) ELSE <<>>

_extract_additional_aliases(row, subs_on, brands_on) ==
    SelectSeq(SubsidiaryNames(row, subs_on), _is_valid_manufacturer_name)
        \o SelectSeq(BrandNames(row, brands_on), _is_valid_manufacturer_name)

FilteredCount(names) ==
    Len(SelectSeq(names, LAMBDA n : ~_is_valid_manufacturer_name(n)))

\* _filter_duplicate_aliases
_filter_duplicate_aliases(new_aliases, existing_aliases) ==
    IF new_aliases = <<>> \/ existing_aliases = <<>> THEN new_aliases
    ELSE LET existing_normalized ==
                 { NormStr(existing_aliases[i]) : i \in 1..Len(existing_aliases) }
         IN  SelectSeq(new_aliases, LAMBDA a : NormStr(a) \notin existing_normalized)

ZeroStats ==
    [manufacturers_with_subsidiaries |-> 0, manufacturers_with_brands |-> 0,
     subsidiaries_added |-> 0, brands_added |-> 0,
     subsidiaries_filtered |-> 0, brands_filtered |-> 0]

\* __init__ without an alias_data_path
NewManager(subs_on, brands_on) ==
    [alias_to_canonical |-> EmptyDict, canonical_to_aliases |-> EmptyDict,
     normalized_to_canonical |-> EmptyDict, canonical_to_normalized |-> EmptyDict,
     include_subsidiaries |-> subs_on, include_brands |-> brands_on,
     stats |-> ZeroStats]

\* for alias in aliases_normalized: if alias: alias_to_canonical[alias] = c
StoreAliasKeys(a2c, aliases_normalized, c) ==
    [x \in (DOMAIN a2c) \cup { a \in SeqToSet(aliases_normalized) : a # <<>> } |->
        IF x \in SeqToSet(aliases_normalized) THEN c ELSE a2c[x]]

\* _store_alias_mappings
_store_alias_mappings(reg, canonical_normalized, aliases_normalized, canonical_original) ==
    IF canonical_normalized = <<>> \/ aliases_normalized = <<>> THEN reg
    ELSE [reg EXCEPT
            !.canonical_to_aliases =
                DictSet(@, canonical_normalized, SeqToSet(aliases_normalized)),
            !.alias_to_canonical =
                StoreAliasKeys(@, aliases_normalized, canonical_normalized),
            !.canonical_to_normalized =
                DictSet(@, canonical_normalized, canonical_original),
            !.normalized_to_canonical =
                DictSet(@, canonical_normalized, canonical_normalized)]

\* add_manual_alias after the two normalisations
AddAliasKeys(reg, canonical_name, canonical_normalized, alias_normalized) ==
    IF canonical_normalized = <<>> \/ alias_normalized = <<>> THEN reg
    ELSE [reg EXCEPT
            !.canonical_to_aliases =
                DictSet(@, canonical_normalized,
                        (IF canonical_normalized \in DOMAIN @
                         THEN @[canonical_normalized] ELSE {}) \cup {alias_normalized}),
            !.alias_to_canonical =
                DictSet(@, alias_normalized, canonical_normalized),
            !.canonical_to_normalized =
                DictSet(@, canonical_normalized, canonical_name),
            !.normalized_to_canonical =
                DictSet(@, canonical_normalized, canonical_normalized)]

\* add_manual_alias
add_manual_alias(reg, canonical_name, alias_name) ==
    AddAliasKeys(reg, canonical_name, NormStr(canonical_name), NormStr(alias_name))

\* get_canonical_name after the normalisation
CanonicalOf(reg, normalized_name) ==
    IF normalized_name = <<>> THEN PyNone
    ELSE IF normalized_name \in DOMAIN reg.alias_to_canonical
            /\ reg.alias_to_canonical[normalized_name] # <<>>
         THEN PyStr(reg.alias_to_canonical[normalized_name])
    ELSE IF normalized_name \in DOMAIN reg.canonical_to_aliases
         THEN PyStr(normalized_name)
    ELSE PyNone

\* get_canonical_name: the canonical key, or None
get_canonical_name(reg, manufacturer_name) ==
    IF ~IsStr(manufacturer_name) \/ manufacturer_name.v = <<>> THEN PyNone
    ELSE CanonicalOf(reg, normalize_manufacturer(manufacturer_name))

\* get_aliases after the normalisation
AliasesAt(reg, normalized_canonical) ==
    IF normalized_canonical = <<>> THEN {}
    ELSE IF normalized_canonical \in DOMAIN reg.canonical_to_aliases
         THEN reg.canonical_to_aliases[normalized_canonical]
    ELSE {}

\* get_aliases: a copy of the alias set of a canonical name
get_aliases(reg, canonical_name) ==
    IF ~IsStr(canonical_name) \/ canonical_name.v = <<>> THEN {}
    ELSE AliasesAt(reg, normalize_manufacturer(canonical_name))

\* "[normalized] if normalized else []"
OwnName(normalized) == IF normalized # <<>> THEN {normalized} ELSE {}

\* get_all_aliases_for_name once the canonical name is looked up
AllAliasesFrom(reg, manufacturer_name, canonical) ==
    IF canonical # PyNone THEN get_aliases(reg, canonical)
    ELSE OwnName(normalize_manufacturer(manufacturer_name))

\* get_all_aliases_for_name
get_all_aliases_for_name(reg, manufacturer_name) ==
    AllAliasesFrom(reg, manufacturer_name, get_canonical_name(reg, manufacturer_name))

\* "canonical1 is not None and canonical2 is not None and canonical1 == canonical2"
SameCanonical(canonical1, canonical2) ==
    canonical1 # PyNone /\ canonical2 # PyNone /\ canonical1 = canonical2

\* is_alias_of
is_alias_of(reg, name1, name2) ==
    SameCanonical(get_canonical_name(reg, name1), get_canonical_name(reg, name2))

\* "if not aliases and 'aliases_text' in row": the pipe-separated fallback
AliasesOrText(parsed, row, text) ==
    IF parsed = <<>> /\ InRow(row.aliases_text) /\ text # <<>>
    THEN StrippedNonEmpty(SplitOn(text, "|"))
    ELSE parsed

\* "if original_name not in aliases: aliases.append(original_name)"
WithOriginal(aliases, original_name) ==
    IF original_name \in SeqToSet(aliases) THEN aliases
    ELSE Append(aliases, original_name)

\* One pass of the row loop of load_aliases on a row that does not raise:
\* the alias list it builds
RowAliases(row) ==
    WithOriginal(AliasesOrText(_parse_aliases_column(row.aliases), row,
                               Strip(CellStr(row.aliases_text))),
                 Strip(CellStr(row.original_name)))

CountIn(names, pool) == Len(SelectSeq(names, LAMBDA a : a \in SeqToSet(pool)))

\* the counters of names filtered out, which _extract_additional_aliases
\* adds to
FilteredStats(st, row, subs_on, brands_on) ==
    [st EXCEPT
       !.subsidiaries_filtered = @ + FilteredCount(SubsidiaryNames(row, subs_on)),
       !.brands_filtered = @ + FilteredCount(BrandNames(row, brands_on))]

\* "if additional_aliases:": the counters of subsidiaries and brands added
AddedStats(st, kept, with_subs, with_brands, subs, brands) ==
    [st EXCEPT
       !.manufacturers_with_subsidiaries = IF with_subs THEN @ + 1 ELSE @,
       !.subsidiaries_added = IF with_subs THEN @ + CountIn(kept, subs) ELSE @,
       !.manufacturers_with_brands = IF with_brands THEN @ + 1 ELSE @,
       !.brands_added = IF with_brands THEN @ + CountIn(kept, brands) ELSE @]

RowStatsFrom(st1, row, additional, aliases0) ==
    IF additional = <<>> THEN st1
    ELSE AddedStats(st1, _filter_duplicate_aliases(additional, aliases0),
                    InRow(row.subsidiary_names) /\ NotNa(row.subsidiary_names),
                    InRow(row.brands_text) /\ NotNa(row.brands_text),
                    _parse_pipe_delimited_string(row.subsidiary_names),
                    _parse_pipe_delimited_string(row.brands_text))

\* the statistics after one row
RowStats(st, row, subs_on, brands_on) ==
    RowStatsFrom(FilteredStats(st, row, subs_on, brands_on), row,
                 _extract_additional_aliases(row, subs_on, brands_on),
                 RowAliases(row))

\* a row the loop skips: status is not 'found', or the primary name is blank
RowSkipped(row) ==
    row.status # Chars("found") \/ Strip(CellStr(row.original_name)) = <<>>

\* "aliases.extend(additional_aliases)" after the filter
WithAdditional(aliases0, additional) ==
    aliases0 \o _filter_duplicate_aliases(additional, aliases0)

NormAll(names) == [i \in 1..Len(names) |-> NormStr(names[i])]

\* "[normalize_manufacturer(alias) for alias in aliases if alias.strip()]"
NormalizedAliases(aliases) ==
    NormAll(SelectSeq(aliases, LAMBDA a : Strip(a) # <<>>))

\* the normalisations and _store_alias_mappings
StoreRow(reg, original_name, aliases) ==
    _store_alias_mappings(reg, NormStr(original_name), NormalizedAliases(aliases),
                          original_name)

\* the body of the row loop of load_aliases, for a row that is neither
\* skipped nor raises
LoadRowBody(reg, row) ==
    StoreRow([reg EXCEPT
                !.stats = RowStats(@, row, reg.include_subsidiaries, reg.include_brands)],
             Strip(CellStr(row.original_name)),
             WithAdditional(RowAliases(row),
                            _extract_additional_aliases(row, reg.include_subsidiaries,
                                                        reg.include_brands)))

-----------------------------------------------------------------------------
(* Edit distance and the BK-tree: src/product_er_toolkit.py *)

Min2(x, y) == IF x <= y THEN x ELSE y
Max2(x, y) == IF x >= y THEN x ELSE y
Min3(x, y, z) == Min2(x, Min2(y, z))

\* the inner loop of levenshtein: row v1 from row v0, for character c of a
\* at 0-based position i; v1 is built left to right
RECURSIVE LevRow(_, _, _, _)
LevRow(c, b, v0, v1) ==
    IF Len(v1) = Len(b) + 1 THEN v1
    ELSE LET j == Len(v1)
             cost == IF c = b[j] THEN 0 ELSE 1
         IN  LevRow(c, b, v0,
                    Append(v1, Min3(v1[j] + 1, v0[j + 1] + 1, v0[j] + cost)))

\* the outer loop of levenshtein: after the swap v0 is the row just built,
\* a list of len(b) + 1 entries
RECURSIVE LevLoop(_, _, _, _)
LevLoop(a, b, i, v0) ==
    IF Len(v0) = Len(b) + 1 /\ i > Len(a) THEN v0[Len(b) + 1]
    ELSE LevLoop(a, b, i + 1, LevRow(a[i], b, v0, <<i>>))

levenshtein(a, b) ==
    IF a = b THEN 0
    ELSE IF Len(a) = 0 THEN Len(b)
    ELSE IF Len(b) = 0 THEN Len(a)
    ELSE LevLoop(a, b, 1, [j \in 1..(Len(b) + 1) |-> j - 1])

\* BKTree: the nodes in the order they were created, the root first; the
\* children of a node are (distance, node) pairs in insertion order, as the
\* dict children keeps them.  An empty arena is tree = None.
BkNode(term) == [term |-> term, children |-> <<>>]

HasChild(node, d) == \E i \in 1..Len(node.children) : node.children[i][1] = d
ChildAt(node, d) ==
    node.children[CHOOSE i \in 1..Len(node.children) : node.children[i][1] = d][2]

\* BKTree.add: the walk down from node n
RECURSIVE BkInsert(_, _, _)
BkInsert(tree, n, term) ==
    LET d == levenshtein(term, tree[n].term)
    IN  IF HasChild(tree[n], d) THEN BkInsert(tree, ChildAt(tree[n], d), term)
        ELSE Append([tree EXCEPT ![n].children = Append(@, <<d, Len(tree) + 1>>)],
                    BkNode(term))

BKTree_add(tree, term) ==
    IF tree = <<>> THEN <<BkNode(term)>> ELSE BkInsert(tree, 1, term)

\* a search that follows only the children at exactly the distance of the
\* node from the query
ChildrenWithin_Exact(node, lo, hi) ==
    LET hits == SelectSeq(node.children, LAMBDA c : 2 * c[1] = lo + hi)
    IN  [i \in 1..Len(hits) |-> hits[i][2]]

\* the children of node within [lo, hi], in dict order
ChildrenWithin(node, lo, hi) ==
    LET hits == SelectSeq(node.children, LAMBDA c : lo <= c[1] /\ c[1] <= hi)
    IN  [i \in 1..Len(hits) |-> hits[i][2]]

\* BKTree.search: the loop over the stack nodes, res the result so far
RECURSIVE BkSearchLoop(_, _, _, _, _)
BkSearchLoop(tree, term, max_dist, nodes, res) ==
    IF nodes = <<>> THEN res
    ELSE LET n == nodes[Len(nodes)]
             rest == SubSeq(nodes, 1, Len(nodes) - 1)
             d == levenshtein(term, tree[n].term)
             res1 == IF d <= max_dist THEN Append(res, <<tree[n].term, d>>) ELSE res
         IN  BkSearchLoop(tree, term, max_dist,
                          rest \o ChildrenWithin(tree[n], d - max_dist, d + max_dist),
                          res1)

BKTree_search(tree, term, max_dist) ==
    IF tree = <<>> THEN <<>> ELSE BkSearchLoop(tree, term, max_dist, <<1>>, <<>>)

-----------------------------------------------------------------------------
(* Part-number variants: src/product_er_toolkit.py *)

Vowels == { "A", "E", "I", "O", "U" }
Take(s, n) == SubSeq(s, 1, Min2(n, Len(s)))
Drop(s, n) == SubSeq(s, n + 1, Len(s))

\* the characters a vowel is directly followed by that are not vowels
RECURSIVE SyllableTail(_, _)
SyllableTail(s, prev_vowel) ==
    IF s = <<>> THEN <<>>
    ELSE LET is_vowel == Head(s) \in Vowels
         IN  (IF prev_vowel /\ ~is_vowel THEN <<Head(s)>> ELSE <<>>)
                 \o SyllableTail(Tail(s), is_vowel)

\* name[:n] for the lengths n from min_len to max_len the name reaches
Truncations(s, min_len, max_len) ==
    { Take(s, n) : n \in { m \in min_len..max_len : Len(s) >= m } }

\* Strategy 3: the first letters of the words, whole or cut to max_len
AcronymPrefixes(words, acronym, min_len, max_len) ==
    (IF Len(words) > 1 /\ min_len <= Len(acronym) /\ Len(acronym) <= max_len
     THEN {acronym} ELSE {})
      \cup (IF Len(words) > 1 /\ Len(acronym) > max_len
            THEN {Take(acronym, max_len)} ELSE {})

AcronymOf(words) == [i \in 1..Len(words) |-> words[i][1]]

WordPrefixes(words, min_len, max_len) ==
    AcronymPrefixes(words, AcronymOf(words), min_len, max_len)

\* _generate_manufacturer_prefixes: the set prefixes, before the filter
PrefixCandidates(name, min_len, max_len) ==
    Truncations(name, min_len, max_len)
      \cup Truncations(SelectSeq(name, LAMBDA c : c \notin Vowels), min_len, max_len)
      \cup WordPrefixes(Split(ReplaceChar(ReplaceChar(name, "-", <<" ">>), "_", <<" ">>)),
                        min_len, max_len)
      \cup (IF Len(name) > 2 /\ min_len <= 2 THEN {<<name[1], name[Len(name)]>>} ELSE {})
      \cup (IF Len(name) > 3 /\ min_len <= 3
            THEN {<<name[1], name[Len(name) - 1], name[Len(name)]>>} ELSE {})
      \cup Truncations(<<name[1]>> \o SyllableTail(Tail(name), name[1] \in Vowels),
                       min_len, max_len)

\* score_prefix
score_prefix(p, name, max_len) ==
    (max_len - Len(p)) * 2
        + (IF p[1] = name[1] THEN 5 ELSE -10)
        + Len(SelectSeq(p, LAMBDA c : c \notin Vowels))

\* how many prefixes _generate_manufacturer_prefixes returns at most
TopPrefixes == 8

\* the sets the first n of the sorted list can be: n prefixes none of which
\* scores lower than a prefix left out
TopScored(valid, name, max_len, n) ==
    { top \in SUBSET valid :
        /\ Cardinality(top) = n
        /\ \A p \in top, q \in valid \ top :
             score_prefix(p, name, max_len) >= score_prefix(q, name, max_len) }

\* _generate_manufacturer_prefixes after "name = name.upper().strip()"
PrefixesOf(name, valid, max_len) ==
    IF name = <<>> THEN { {} }
    ELSE TopScored(valid, name, max_len, Min2(TopPrefixes, Cardinality(valid)))

ValidPrefixes(name, min_len, max_len) ==
    IF name = <<>> THEN {}
    ELSE { p \in PrefixCandidates(name, min_len, max_len) :
             min_len <= Len(p) /\ Len(p) <= max_len }

PrefixesOfName(name, min_len, max_len) ==
    PrefixesOf(name, ValidPrefixes(name, min_len, max_len), max_len)

\* _generate_manufacturer_prefixes: every value it can return, as a set.
\* The list it sorts comes from a set, so which prefixes of equal score are
\* among the first eight depends on the iteration order of that set.
_generate_manufacturer_prefixes(raw, min_len, max_len) ==
    PrefixesOfName(Strip(Upper(raw)), min_len, max_len)

PrefixSeparators == { "-", "_", "/", ".", " " }
NoMatch == [ok |-> FALSE, prefix |-> <<>>, remaining |-> <<>>]

\* the length of the run of letters a string starts with
LetterRun(pn) ==
    CHOOSE n \in 0..Len(pn) :
        /\ \A i \in 1..n : IsLetter(pn[i])
        /\ (n < Len(pn) => ~IsLetter(pn[n + 1]))

\* re.match(r'^([A-Za-z]{2,6})[-_/.\s](.+)', pn, re.IGNORECASE)
PrefixPatternSeparator(pn) ==
    LET k == LetterRun(pn)
    IN  IF 2 <= k /\ k <= 6 /\ Len(pn) >= k + 2 /\ pn[k + 1] \in PrefixSeparators
        THEN [ok |-> TRUE, prefix |-> Upper(Take(pn, k)), remaining |-> Drop(pn, k + 1)]
        ELSE NoMatch

\* re.match(r'^([A-Za-z]{2,6})([0-9].+)', pn, re.IGNORECASE)
PrefixPatternDigits(pn) ==
    LET k == LetterRun(pn)
    IN  IF 2 <= k /\ k <= 6 /\ Len(pn) >= k + 2 /\ IsDigit(pn[k + 1])
        THEN [ok |-> TRUE, prefix |-> Upper(Take(pn, k)), remaining |-> Drop(pn, k)]
        ELSE NoMatch

PrefixPatterns(pn) == <<PrefixPatternSeparator(pn), PrefixPatternDigits(pn)>>

\* "remaining and len(remaining) >= 2 and len(prefix) >= 2"
Substantial(m) == m.ok /\ Len(m.remaining) >= 2 /\ Len(m.prefix) >= 2

\* the score _extract_manufacturer_prefix gives a match
PrefixMatchScore(pn, m, known_prefixes) ==
    LET base ==
            IF known_prefixes # {}
            THEN IF m.prefix \in known_prefixes THEN 100
                 ELSE IF \E kp \in known_prefixes :
                            StartsWith(m.prefix, kp) \/ StartsWith(kp, m.prefix)
                      THEN 50
                 ELSE -1
            ELSE -1
        head == Take(pn, Len(m.prefix) + 1)
    IN  IF base > 0
        THEN base + Len(m.prefix)
               + (IF \E i \in 1..Len(head) : head[i] \in PrefixSeparators THEN 10 ELSE 0)
        ELSE base

\* the first loop of _extract_manufacturer_prefix over the patterns
RECURSIVE BestPrefixMatch(_, _, _, _, _)
BestPrefixMatch(pn, ms, known_prefixes, best_match, best_score) ==
    IF ms = <<>> THEN [match |-> best_match, score |-> best_score]
    ELSE LET m == Head(ms)
             score == PrefixMatchScore(pn, m, known_prefixes)
         IN  IF Substantial(m) /\ score > best_score
             THEN BestPrefixMatch(pn, Tail(ms), known_prefixes,
                                  <<m.prefix, m.remaining>>, score)
             ELSE BestPrefixMatch(pn, Tail(ms), known_prefixes, best_match, best_score)

\* _extract_manufacturer_prefix(pn, manufacturer_name), given what
\* _generate_manufacturer_prefixes returned; manufacturer_name is a string
\* or None
_extract_manufacturer_prefix(pn, manufacturer_name, generated) ==
    IF pn = <<>> THEN <<<<>>, pn>>
    ELSE LET given == manufacturer_name # PyNone /\ manufacturer_name.v # <<>>
             known_prefixes ==
                 IF given
                 THEN { Upper(p) : p \in generated }
                        \cup { Split(Upper(manufacturer_name.v))[1] }
                 ELSE {}
             best == BestPrefixMatch(pn, PrefixPatterns(pn), known_prefixes,
                                     <<<<>>, pn>>, -1)
             generic == SelectSeq(PrefixPatterns(pn), Substantial)
         IN  IF best.score < 0 /\ ~given /\ generic # <<>>
             THEN <<generic[1].prefix, generic[1].remaining>>
             ELSE best.match

\* the words of the four suffix patterns, in upper case
UnitWords ==
    { Chars("EA"), Chars("EACH"), Chars("PCS"), Chars("PIECE"), Chars("PIECES"),
      Chars("PK"), Chars("PACK"), Chars("UNIT"), Chars("UNITS"), Chars("CT"),
      Chars("COUNT"), Chars("QTY"), Chars("QUANTITY") }
PackagingWords ==
    { Chars("BULK"), Chars("RETAIL"), Chars("CONSUMER"), Chars("COMMERCIAL"),
      Chars("STD"), Chars("STANDARD") }
VersionStems == { Chars("REV"), Chars("VERSION"), Chars("V"), Chars("R") }
ConditionWords ==
    { Chars("NEW"), Chars("OLD"), Chars("ORIGINAL"), Chars("REPLACEMENT"),
      Chars("REFURB") }

\* (rev|version|v|r)\d{1,3}, ignoring case
IsVersionWord(w) ==
    \E stem \in VersionStems :
        /\ StartsWith(Upper(w), stem)
        /\ Len(w) - Len(stem) \in 1..3
        /\ \A i \in (Len(stem) + 1)..Len(w) : IsDigit(w[i])

\* whether w is a word of suffix pattern k = 1..4, ignoring case
IsSuffixWord(k, w) ==
    CASE k = 1 -> Upper(w) \in UnitWords
      [] k = 2 -> Upper(w) \in PackagingWords
      [] k = 3 -> IsVersionWord(w)
      [] k = 4 -> Upper(w) \in ConditionWords

\* the least i for which the tail of s after i characters satisfies M, or -1
FirstTail(s, M(_)) ==
    IF \E i \in 0..Len(s) : M(Drop(s, i))
    THEN CHOOSE i \in 0..Len(s) :
            M(Drop(s, i)) /\ \A j \in 0..(i - 1) : ~M(Drop(s, j))
    ELSE -1

\* re.match(r'(.*?)\s*(words)\s*$', pn, re.IGNORECASE) for pattern k: the
\* lazy group takes the shortest head whose tail is spaces, a word, spaces
UnitPatternMatch(k, pn) ==
    LET i == FirstTail(pn, LAMBDA t : IsSuffixWord(k, Strip(t)))
    IN  IF i < 0 THEN [ok |-> FALSE, remaining |-> pn, suffix |-> <<>>]
        ELSE [ok |-> TRUE, remaining |-> Take(pn, i),
              suffix |-> Upper(Strip(Drop(pn, i)))]

\* _extract_unit_suffix: the loop over the patterns from pattern k on
RECURSIVE UnitSuffixFrom(_, _)
UnitSuffixFrom(k, pn) ==
    IF k > 4 THEN <<pn, <<>>>>
    ELSE LET m == UnitPatternMatch(k, pn)
         IN  IF m.ok /\ Len(Strip(m.remaining)) >= 3 /\ Len(m.suffix) <= 10
             THEN <<m.remaining, m.suffix>>
             ELSE UnitSuffixFrom(k + 1, pn)

_extract_unit_suffix(pn) == UnitSuffixFrom(1, pn)

\* _extract_all_suffixes: the while loop
RECURSIVE AllSuffixesLoop(_, _)
AllSuffixesLoop(current, suffixes) ==
    LET r == _extract_unit_suffix(current)
    IN  IF r[2] # <<>> /\ r[1] # current
        THEN AllSuffixesLoop(Strip(r[1]), <<r[2]>> \o suffixes)
        ELSE <<current, suffixes>>

_extract_all_suffixes(pn) == AllSuffixesLoop(Strip(pn), <<>>)

\* Step 3 of pn_variants: the variants made of prefix, core and suffixes
ComposedVariants(prefix, core_part, suffixes) ==
    LET with_each == { core_part \o suffixes[i] : i \in 1..Len(suffixes) }
        with_all == IF Len(suffixes) > 1
                    THEN { core_part \o suffixes[1], core_part \o Flatten(suffixes) }
                    ELSE {}
    IN  IF prefix # <<>> /\ core_part # <<>> /\ suffixes # <<>>
        THEN { core_part, prefix \o core_part } \cup with_each \cup with_all
        ELSE IF prefix # <<>> /\ core_part # <<>>
        THEN { core_part, prefix \o core_part }
        ELSE IF core_part # <<>> /\ suffixes # <<>>
        THEN { core_part } \cup with_each \cup with_all
        ELSE IF core_part # <<>> THEN { core_part }
        ELSE {}

VersionSeparators == { "-", "_", "/", "." }

\* whether a tail matches fallback pattern k = 1..4 of suffixes_to_remove:
\*   \s+(words)\s*$  for the unit and packaging words,
\*   \s*[-_/\.]?\s*(words)\s*$  for the version and condition words
FallbackTail(k, t) ==
    IF k \in {1, 2}
    THEN t # <<>> /\ IsSpace(Head(t)) /\ IsSuffixWord(k, Strip(t))
    ELSE LET a == Strip(t)
         IN  \/ IsSuffixWord(k, a)
             \/ (a # <<>> /\ Head(a) \in VersionSeparators
                    /\ IsSuffixWord(k, LStrip(Tail(a))))

\* a substitution that respells a match in capitals and cuts nothing off
FallbackSub_Respelled(k, current) ==
    IF \E i \in 0..Len(current) : FallbackTail(k, Drop(current, i))
    THEN Upper(current) ELSE current

\* re.sub(suffix_pattern, '', current, flags=re.IGNORECASE): the leftmost
\* match runs to the end of the string and is cut off
FallbackSub(k, current) ==
    LET i == FirstTail(current, LAMBDA t : FallbackTail(k, t))
    IN  IF i < 0 THEN current ELSE Take(current, i)

\* the first pattern, from pattern k on, whose substitution changes current
\* to something not blank; 0 if there is none
RECURSIVE FallbackPattern(_, _)
FallbackPattern(k, current) ==
    IF k > 4 THEN 0
    ELSE LET cleaned == FallbackSub(k, current)
         IN  IF cleaned # current /\ Strip(cleaned) # <<>> THEN k
             ELSE FallbackPattern(k + 1, current)

\* Step 4 of pn_variants: the while loop; the variants it adds
RECURSIVE FallbackVariants(_)
FallbackVariants(current) ==
    LET k == FallbackPattern(1, current)
    IN  IF k = 0 THEN {}
        ELSE LET cleaned == FallbackSub(k, current)
             IN  {cleaned} \cup FallbackVariants(cleaned)

\* Step 5 of pn_variants: the five forms of one variant
IsVersionSeparator(c) == c \in VersionSeparators
OcrO(s) == ReplaceChar(ReplaceChar(s, "O", <<"0">>), "o", <<"0">>)
OcrI(s) == ReplaceChar(ReplaceChar(s, "I", <<"1">>), "l", <<"1">>)

\* the five forms with I and l replaced in the form that still has its O's
VariantForms_Unchained(variant) ==
    LET base == SelectSeq(variant, LAMBDA c : ~IsSpace(c))
        no_sep == SelectSeq(base, LAMBDA c : ~IsVersionSeparator(c))
    IN  { variant, base, no_sep, OcrO(no_sep), OcrI(no_sep) }

VariantForms(variant) ==
    LET base == SelectSeq(variant, LAMBDA c : ~IsSpace(c))
        no_sep == SelectSeq(base, LAMBDA c : ~IsVersionSeparator(c))
        o_to_0 == OcrO(no_sep)
        i_to_1 == OcrI(o_to_0)
    IN  { variant, base, no_sep, o_to_0, i_to_1 }

\* norm_mfr of pn_variants: the normalized manufacturer name, or None
NormMfr(manufacturer_name) ==
    IF manufacturer_name # PyNone /\ manufacturer_name.v # <<>>
    THEN PyStr(NormStr(manufacturer_name.v)) ELSE PyNone

\* prefix, core_part and suffixes, from the prefix and what
\* _extract_all_suffixes makes of the remainder
Parts(prefix, cs) == [prefix |-> prefix, core_part |-> cs[1], suffixes |-> cs[2]]
SplitSuffixes(pr) == Parts(pr[1], _extract_all_suffixes(pr[2]))

\* the decomposition pn_variants makes of a part number in step 2
Decomposition(original, manufacturer_name, generated) ==
    SplitSuffixes(_extract_manufacturer_prefix(original, NormMfr(manufacturer_name),
                                               generated))

\* steps 3 and 4 of pn_variants: the set variants
AllVariants(original, d) ==
    {original}
      \cup ComposedVariants(d.prefix, d.core_part, d.suffixes)
      \cup (IF d.prefix = <<>> /\ d.suffixes = <<>>
            THEN FallbackVariants(original) ELSE {})

\* step 5 of pn_variants: the forms of every variant, uppercased, the empty
\* ones left out
FinalVariants(variants) ==
    { Upper(v) : v \in (UNION { VariantForms(v) : v \in variants }) \ {<<>>} }

\* pn_variants from the stripped part number on
PnVariantsOf(original, manufacturer_name, generated) ==
    IF original = <<>> THEN {}
    ELSE FinalVariants(AllVariants(original,
                           Decomposition(original, manufacturer_name, generated)))

\* pn_variants(pn, manufacturer_name), given what
\* _generate_manufacturer_prefixes returned for the normalized manufacturer;
\* the list it returns is list(set(...)): the set is what is modelled
pn_variants(pn, manufacturer_name, generated) ==
    IF ~IsStr(pn) THEN {}
    ELSE PnVariantsOf(Strip(pn.v), manufacturer_name, generated)

\* what _generate_manufacturer_prefixes can return for norm_mfr
GeneratedOf(norm_mfr) ==
    IF norm_mfr # PyNone /\ norm_mfr.v # <<>>
    THEN _generate_manufacturer_prefixes(norm_mfr.v, 2, 6)
    ELSE { {} }

\* the same for the manufacturer name pn_variants is given
GeneratedFor(manufacturer_name) == GeneratedOf(NormMfr(manufacturer_name))

-----------------------------------------------------------------------------
(* Candidate generation: src/product_er_toolkit.py.  A float is modelled   *)
(* as a fixed-point number, an integer count of 1/10000: 10.0 is 100000.   *)

\* the first k decimal digits of r / d for r < d, by long division
RECURSIVE DecimalDigits(_, _, _)
DecimalDigits(r, d, k) ==
    IF k = 0 THEN 0
    ELSE ((r * 10) \div d) * 10 ^ (k - 1) + DecimalDigits((r * 10) % d, d, k - 1)

\* n / d in ten-thousandths, rounded down: (n * 10000) \div d, computed
\* without the large product
FixedPoint(n, d) == (n \div d) * 10000 + DecimalDigits(n % d, d, 4)

\* jaro_winkler, first loop: i is the 0-based position in s1; m1 and m2 are
\* the 0-based positions of s1 and s2 matched so far
RECURSIVE JaroMatches(_, _, _, _, _, _)
RECURSIVE JaroMatchStep(_, _, _, _, _, _, _)
JaroMatches(s1, s2, match_distance, i, m1, m2) ==
    IF i >= Len(s1) THEN <<m1, m2>>
    ELSE JaroMatchStep(s1, s2, match_distance, i, m1, m2,
            { j \in Max2(0, i - match_distance)..(Min2(i + match_distance + 1, Len(s2)) - 1) :
                j \notin m2 /\ s1[i + 1] = s2[j + 1] })
\* one pass of the loop: free holds the positions of s2 in the window that
\* are not matched yet and carry the character s1[i]; the first is taken
JaroMatchStep(s1, s2, match_distance, i, m1, m2, free) ==
    IF free = {} THEN JaroMatches(s1, s2, match_distance, i + 1, m1, m2)
    ELSE JaroMatches(s1, s2, match_distance, i + 1, m1 \cup {i},
                     m2 \cup {CHOOSE x \in free : \A y \in free : x <= y})

\* the characters of s at the 0-based positions in m, in order
MatchedChars(s, m) ==
    LET at == SelectSeq([i \in 1..Len(s) |-> i], LAMBDA i : (i - 1) \in m)
    IN  [k \in 1..Len(at) |-> s[at[k]]]

\* the length of the common prefix of s1 and s2 within the first n characters
RECURSIVE CommonPrefix(_, _, _)
CommonPrefix(s1, s2, n) ==
    IF n = 0 \/ Head(s1) # Head(s2) THEN 0
    ELSE 1 + CommonPrefix(Tail(s1), Tail(s2), n - 1)

\* twice the value of transpositions after "/= 2": c1 and c2 are the
\* matched characters of the two strings
Transpositions(c1, c2) == Cardinality({ k \in 1..Len(c1) : c1[k] # c2[k] })

\* jaro + prefix * p * (1 - jaro) for jaro = jaro_n / jaro_d and p = 0.1
WinklerBoost(jaro_n, jaro_d, prefix) ==
    FixedPoint(10 * jaro_n + prefix * (jaro_d - jaro_n), 10 * jaro_d)

\* jaro as a fraction, and the result of jaro_winkler, from the counts
JaroScore(matches, transpositions, len1, len2, prefix) ==
    IF matches = 0 THEN 0
    ELSE WinklerBoost(2 * matches * matches * len2 + 2 * matches * matches * len1
                          + (2 * matches - transpositions) * len1 * len2,
                      6 * len1 * len2 * matches, prefix)

\* jaro_winkler after the matching loop, whose result is ms
JaroOf(s1, s2, ms) ==
    JaroScore(Cardinality(ms[1]),
              Transpositions(MatchedChars(s1, ms[1]), MatchedChars(s2, ms[2])),
              Len(s1), Len(s2), CommonPrefix(s1, s2, Min3(4, Len(s1), Len(s2))))

\* jaro_winkler after the uppercasing
JaroWinklerUpper(s1, s2) ==
    IF s1 = s2 THEN FixedPoint(1, 1)
    ELSE IF Len(s1) = 0 \/ Len(s2) = 0 THEN 0
    ELSE JaroOf(s1, s2,
                JaroMatches(s1, s2, (Max2(Len(s1), Len(s2)) \div 2) - 1, 0, {}, {}))

\* jaro_winkler(s1, s2) with p = 0.1 and max_l = 4, on strings
jaro_winkler(a, b) == JaroWinklerUpper(Upper(a), Upper(b))

\* normalize_unspsc on None, NaN or a string: str(unspsc).strip()
normalize_unspsc(unspsc) ==
    IF unspsc = PyNone THEN <<>>
    ELSE IF unspsc = PyNaN THEN Chars("nan")
    ELSE Strip(unspsc.v)

\* str(row.get('gtin', '')).strip().upper()
GtinKey(gtin) ==
    IF gtin = PyNone THEN Chars("NONE")
    ELSE IF gtin = PyNaN THEN Chars("NAN")
    ELSE Upper(Strip(gtin.v))

\* gtin and gtin not in ['NAN', 'NONE', '', '0']
ValidGtin(gtin) == gtin \notin { Chars("NAN"), Chars("NONE"), <<>>, Chars("0") }

\* [A-Za-z0-9\+\-_/\.]
IsTokenChar(c) == IsLetter(c) \/ IsDigit(c) \/ c \in { "+", "-", "_", "/", "." }

\* re.findall(r"[A-Za-z0-9\+\-_/\.]{2,}", s): run is the run of token
\* characters being read
RECURSIVE FindTokens(_, _)
FindTokens(s, run) ==
    LET done == IF Len(run) >= 2 THEN {run} ELSE {}
    IN  IF s = <<>> THEN done
        ELSE IF IsTokenChar(Head(s)) THEN FindTokens(Tail(s), Append(run, Head(s)))
        ELSE done \cup FindTokens(Tail(s), <<>>)

\* extract_tokens
extract_tokens(s) == FindTokens(s, <<>>)

\* rare_tokens without the floor of one document on the upper bound
rare_tokens_NoFloor(texts, min_df) ==
    LET n == Len(texts)
        all == UNION { extract_tokens(texts[i]) : i \in 1..n }
        df(tok) == Cardinality({ i \in 1..n : tok \in extract_tokens(texts[i]) })
    IN  { tok \in all : df(tok) >= min_df /\ df(tok) <= (15 * n) \div 100 }

\* rare_tokens(texts, min_df, 0.15): the tokens that get a rarity
rare_tokens(texts, min_df) ==
    LET n == Len(texts)
        all == UNION { extract_tokens(texts[i]) : i \in 1..n }
        df(tok) == Cardinality({ i \in 1..n : tok \in extract_tokens(texts[i]) })
    IN  { tok \in all : df(tok) >= min_df /\ df(tok) <= Max2(1, (15 * n) \div 100) }

\* title.fillna("") + " " + description.fillna(""), lowercased
TextAll(title, description) ==
    Lower((IF IsStr(title) THEN title.v ELSE <<>>) \o <<" ">>
            \o (IF IsStr(description) THEN description.v ELSE <<>>))

\* the orders a set can be iterated in: the lists list(set(...)) can be
Orderings(S) ==
    { q \in [1..Cardinality(S) -> S] : \A i, j \in 1..Cardinality(S) : q[i] = q[j] => i = j }

\* what _generate_manufacturer_prefixes can return for each of the names
GeneratedTable(names) == [n \in names |-> GeneratedFor(PyStr(n))]

\* one return value for each name
CachesOf(table) ==
    { f \in [DOMAIN table -> UNION { table[n] : n \in DOMAIN table }] :
        \A n \in DOMAIN table : f[n] \in table[n] }

\* what _generate_manufacturer_prefixes returns, in one process, for each
\* of the names it is called with (it is cached)
PrefixCaches(names) == CachesOf(GeneratedTable(names))

\* the columns generate_candidates adds to a row; variants is the list
\* pn_variants returned
PreparedRow(item, variants) ==
    [manufacturer |-> item.manufacturer,
     mfr_norm |-> normalize_manufacturer(item.manufacturer),
     unspsc_clean |-> normalize_unspsc(item.unspsc),
     gtin |-> item.gtin,
     pn_variants |-> variants,
     text_all |-> TextAll(item.title, item.description)]

\* the rows a catalog row can become: one for each order of its variants
PreparedRowsFor(item, mfr_norm, cache) ==
    { PreparedRow(item, q) :
        q \in Orderings(pn_variants(item.part_number, PyStr(mfr_norm), cache[mfr_norm])) }

PreparedRows(item, cache) ==
    PreparedRowsFor(item, normalize_manufacturer(item.manufacturer), cache)

\* the frames a catalog can become
RECURSIVE PreparedFrames(_, _)
PreparedFrames(items, cache) ==
    IF items = <<>> THEN { <<>> }
    ELSE { <<r>> \o rest : r \in PreparedRows(Head(items), cache),
                           rest \in PreparedFrames(Tail(items), cache) }

\* the normalized names of a catalog
NamesOf(items) == { normalize_manufacturer(items[i].manufacturer) : i \in 1..Len(items) }

\* the alias set of a row, as generate_candidates asks for it
AliasesOf(alias_manager, manufacturer) ==
    IF alias_manager = PyNone THEN {}
    ELSE get_all_aliases_for_name(alias_manager, manufacturer)

\* "if canonical and canonical != mfr_norm": the key the canonical name adds
CanonicalKey(canonical, mfr_norm) ==
    IF canonical # PyNone /\ canonical.v # <<>> /\ canonical.v # mfr_norm
    THEN <<canonical.v>> ELSE <<>>

\* the keys of mfr_to_b one row of df_b is appended to, as a list: the
\* alias set is read in some order, which the lists of mfr_to_b do not
\* depend on, a row being appended to the lists of different keys
MfrKeys(row, alias_manager, alias_order) ==
    IF row.mfr_norm = <<>> THEN <<>>
    ELSE <<row.mfr_norm>> \o
         (IF alias_manager = PyNone THEN <<>>
          ELSE CanonicalKey(get_canonical_name(alias_manager, row.manufacturer),
                            row.mfr_norm)
                 \o SelectSeq(alias_order, LAMBDA alias : alias # row.mfr_norm))

\* a list with one j for each time key is in keys
Times(keys, key, j) == [i \in 1..Len(SelectSeq(keys, LAMBDA k : k = key)) |-> j]

\* some order of a set, for the loops whose order has no effect
AnyOrder(S) == CHOOSE q \in Orderings(S) : TRUE

\* the loop that builds mfr_to_b: for each row of df_b, the keys it is
\* appended to
MfrIndex(rows, alias_manager) ==
    [j \in 1..Len(rows) |->
        MfrKeys(rows[j], alias_manager,
                AnyOrder(AliasesOf(alias_manager, rows[j].manufacturer)))]

\* mfr_to_b.get(key, [])
mfr_to_b(index, key) ==
    Flatten([j \in 1..Len(index) |-> Times(index[j], key, j)])

\* the rows satisfying P, in row order
RowsWhere(rows, P(_)) == SelectSeq([j \in 1..Len(rows) |-> j], LAMBDA j : P(rows[j]))

\* unspsc_to_b (n = 8), unspsc_class_to_b (6), unspsc_family_to_b (4) and
\* unspsc_segment_to_b (2): .get(key, [])
unspsc_to_b(rows, n, key) ==
    RowsWhere(rows, LAMBDA r : Len(r.unspsc_clean) = 8 /\ Take(r.unspsc_clean, n) = key)

\* gtin_to_b.get(key, [])
gtin_to_b(rows, key) ==
    RowsWhere(rows, LAMBDA r : ValidGtin(GtinKey(r.gtin)) /\ GtinKey(r.gtin) = key)

\* pn_to_bidx.get(v, [])
pn_to_bidx(rows, v) ==
    RowsWhere(rows, LAMBDA r : v \in SeqToSet(r.pn_variants))

\* the variants in the order they are first met, which is the order they
\* are added to the BK-tree in
RECURSIVE FirstMet(_, _)
FirstMet(vs, seen) ==
    IF vs = <<>> THEN <<>>
    ELSE IF Head(vs) \in seen THEN FirstMet(Tail(vs), seen)
    ELSE <<Head(vs)>> \o FirstMet(Tail(vs), seen \cup {Head(vs)})

RECURSIVE BkAddAll(_, _)
BkAddAll(tree, terms) ==
    IF terms = <<>> THEN tree
    ELSE BkAddAll(BKTree_add(tree, Head(terms)), Tail(terms))

\* the BK-tree of the variants of df_b
BuildBk(rows) ==
    BkAddAll(<<>>, FirstMet(Flatten([j \in 1..Len(rows) |-> rows[j].pn_variants]), {}))

\* rarity, as the set of its keys
Rarity(rows) == rare_tokens([j \in 1..Len(rows) |-> rows[j].text_all], 1)

\* one "cand_scores[j] = cand_scores.get(j, 0) + amount" of generate_candidates
Event(j, kind, amount) == [j |-> j, kind |-> kind, amount |-> amount]
EventsFor(js, kind, amount) == [k \in 1..Len(js) |-> Event(js[k], kind, amount)]

\* the signals that add to mfr_matched and those that add to pn_matched
MfrKinds == { "mfr", "mfr_canonical", "mfr_alias", "mfr_jw", "mfr_alias_jw" }
PnKinds == { "pn_exact", "pn_fuzzy" }

\* GTIN exact matching: + 10.0
GtinEvents(a, rows) ==
    IF ValidGtin(GtinKey(a.gtin))
    THEN EventsFor(gtin_to_b(rows, GtinKey(a.gtin)), "gtin", 100000)
    ELSE <<>>

\* + 1.0 for the rows under the canonical name of the A-row
MfrCanonicalEvents(index, canonical_a, mfr_norm) ==
    IF canonical_a # PyNone /\ canonical_a.v # <<>> /\ canonical_a.v # mfr_norm
    THEN EventsFor(mfr_to_b(index, canonical_a.v), "mfr_canonical", 10000)
    ELSE <<>>

\* + 0.8 for the rows under each alias of the A-row but its own name
MfrAliasEvents(index, others) ==
    Flatten([k \in 1..Len(others) |->
                EventsFor(mfr_to_b(index, others[k]), "mfr_alias", 8000)])

\* manufacturer matching: + 1.0 direct, + 1.0 through the canonical name,
\* + 0.8 through each alias; index is mfr_to_b and aliases_a is the alias
\* set of the A-row in the order it is iterated in
MfrEvents(a, index, alias_manager, aliases_a) ==
    IF a.mfr_norm = <<>> THEN <<>>
    ELSE EventsFor(mfr_to_b(index, a.mfr_norm), "mfr", 10000) \o
         (IF alias_manager = PyNone THEN <<>>
          ELSE MfrCanonicalEvents(index,
                                  get_canonical_name(alias_manager, a.manufacturer),
                                  a.mfr_norm)
                 \o MfrAliasEvents(index,
                        SelectSeq(aliases_a, LAMBDA alias : alias # a.mfr_norm)))

\* UNSPSC matching: + 3.0 exact, + 2.0 class, + 1.5 family, + 1.0 segment
UnspscEvents(a, rows) ==
    IF Len(a.unspsc_clean) = 8
    THEN EventsFor(unspsc_to_b(rows, 8, a.unspsc_clean), "unspsc", 30000)
           \o EventsFor(unspsc_to_b(rows, 6, Take(a.unspsc_clean, 6)), "unspsc", 20000)
           \o EventsFor(unspsc_to_b(rows, 4, Take(a.unspsc_clean, 4)), "unspsc", 15000)
           \o EventsFor(unspsc_to_b(rows, 2, Take(a.unspsc_clean, 2)), "unspsc", 10000)
    ELSE <<>>

\* the greatest element of a non-empty set of numbers
MaxOf(S) == CHOOSE x \in S : \A y \in S : y <= x

\* best_jw: the best Jaro-Winkler score between any two aliases
BestAliasJw(aliases_a, aliases_b) ==
    MaxOf({0} \cup { jaro_winkler(alias_a, alias_b) :
                        alias_a \in aliases_a, alias_b \in aliases_b })

\* + jw, and + best_jw * 0.9, when they reach jw_mfr
JwEventsFrom(j, jw, best_jw, jw_mfr, alias_manager) ==
    (IF jw >= jw_mfr THEN <<Event(j, "mfr_jw", jw)>> ELSE <<>>)
      \o (IF alias_manager # PyNone /\ best_jw >= jw_mfr
          THEN <<Event(j, "mfr_alias_jw", (best_jw * 9) \div 10)>> ELSE <<>>)

\* Jaro-Winkler matching of one row of df_b: + jw, and + best_jw * 0.9 for
\* the best pair of aliases
JwEventsOf(a, b, j, jw_mfr, alias_manager) ==
    IF a.mfr_norm = <<>> \/ b.mfr_norm = <<>> THEN <<>>
    ELSE JwEventsFrom(j, jaro_winkler(a.mfr_norm, b.mfr_norm),
                      BestAliasJw(AliasesOf(alias_manager, a.manufacturer),
                                  AliasesOf(alias_manager, b.manufacturer)),
                      jw_mfr, alias_manager)

JwEvents(a, rows, jw_mfr, alias_manager) ==
    Flatten([j \in 1..Len(rows) |-> JwEventsOf(a, rows[j], j, jw_mfr, alias_manager)])

\* + max(0.0, 2.0 - 0.5 * d) for each row that has a variant the BK-tree
\* found at distance d
PnFuzzyEvents(rows, found) ==
    Flatten([k \in 1..Len(found) |->
                EventsFor(pn_to_bidx(rows, found[k][1]), "pn_fuzzy",
                          Max2(0, 20000 - 5000 * found[k][2]))])

\* part-number matching of one variant v of the A-row: + 3.0 for each row
\* of df_b that has v, then the rows the BK-tree leads to
PnEventsOf(v, rows, bk, pn_max_edit) ==
    EventsFor(pn_to_bidx(rows, v), "pn_exact", 30000)
      \o PnFuzzyEvents(rows, BKTree_search(bk, v, pn_max_edit))

PnEvents(a, rows, bk, pn_max_edit) ==
    Flatten([k \in 1..Len(a.pn_variants) |->
                PnEventsOf(a.pn_variants[k], rows, bk, pn_max_edit)])

\* the rare tokens of a text
RareOf(text_all, rarity) == extract_tokens(text_all) \cap rarity

\* + 0.5 for each token of a_rare a row shares, for the rows in hit
RareEventsFor(a_rare, rows, rarity, hit) ==
    [k \in 1..Len(hit) |->
        Event(hit[k], "rare",
              5000 * Cardinality(a_rare \cap RareOf(rows[hit[k]].text_all, rarity)))]

RareEventsOf(a_rare, rows, rarity) ==
    RareEventsFor(a_rare, rows, rarity,
        RowsWhere(rows, LAMBDA r : a_rare \cap RareOf(r.text_all, rarity) # {}))

RareEventsWith(a, rows, rarity) ==
    RareEventsOf(RareOf(a.text_all, rarity), rows, rarity)

\* rare tokens: + 0.5 for each rare token the two texts share
RareEvents(a, rows) == RareEventsWith(a, rows, Rarity(rows))

\* the rows with an event of one of the kinds
Matched(events, kinds) == { events[k].j : k \in { i \in 1..Len(events) : events[i].kind \in kinds } }

\* a boost for every part-number signal of a row that matched on both
SynergyEvents_PerSignal(events) ==
    LET both == Matched(events, MfrKinds) \cap Matched(events, PnKinds)
        pn == SelectSeq(events, LAMBDA e : e.kind \in PnKinds /\ e.j \in both)
    IN  [k \in 1..Len(pn) |-> Event(pn[k].j, "synergy", 50000)]

\* the synergy boost: + 5.0 for idx_b in (mfr_matched & pn_matched)
SynergyEvents(events) ==
    LET both == Matched(events, MfrKinds) \cap Matched(events, PnKinds)
        js == SelectSeq([j \in 1..MaxOf(both \cup {0}) |-> j], LAMBDA j : j \in both)
    IN  EventsFor(js, "synergy", 50000)

\* the signals, then the synergy boost
WithSynergy(signals) == signals \o SynergyEvents(signals)

\* the additions to cand_scores for one row of df_a, in the order they are
\* made
ScoreEvents(a, rows, bk, jw_mfr, pn_max_edit, alias_manager, aliases_a) ==
    WithSynergy(GtinEvents(a, rows)
                  \o MfrEvents(a, MfrIndex(rows, alias_manager), alias_manager, aliases_a)
                  \o UnspscEvents(a, rows)
                  \o JwEvents(a, rows, jw_mfr, alias_manager)
                  \o PnEvents(a, rows, bk, pn_max_edit)
                  \o RareEvents(a, rows))

\* cand_scores, a dict: its keys in insertion order and its values
NoScores == [keys |-> <<>>, score |-> EmptyDict]

\* cand_scores[j] = cand_scores.get(j, 0) + amount
AddScore(scores, e) ==
    IF e.j \in DOMAIN scores.score
    THEN [scores EXCEPT !.score[e.j] = @ + e.amount]
    ELSE [keys |-> Append(scores.keys, e.j),
          score |-> DictSet(scores.score, e.j, e.amount)]

RECURSIVE Accumulate(_, _)
Accumulate(scores, events) ==
    IF events = <<>> THEN scores
    ELSE Accumulate(AddScore(scores, Head(events)), Tail(events))

\* a sort that puts the lowest score first
SortedByScore_Ascending(scores) ==
    LET keys == scores.keys
        place(i) == Cardinality({ k \in 1..Len(keys) :
                        \/ scores.score[keys[k]] < scores.score[keys[i]]
                        \/ (scores.score[keys[k]] = scores.score[keys[i]] /\ k < i) }) + 1
    IN  [p \in 1..Len(keys) |-> keys[CHOOSE i \in 1..Len(keys) : place(i) = p]]

\* sorted(cand_scores.items(), key=lambda x: -x[1]): the keys, highest score
\* first, keys of equal score in insertion order (the sort is stable)
SortedByScore(scores) ==
    LET keys == scores.keys
        place(i) == Cardinality({ k \in 1..Len(keys) :
                        \/ scores.score[keys[k]] > scores.score[keys[i]]
                        \/ (scores.score[keys[k]] = scores.score[keys[i]] /\ k < i) }) + 1
    IN  [p \in 1..Len(keys) |-> keys[CHOOSE i \in 1..Len(keys) : place(i) = p]]

\* a_to_candidates[idx_a]
TopCandidates(scores, max_cands_per_item) ==
    Take(SortedByScore(scores), max_cands_per_item)

-----------------------------------------------------------------------------
(* canonicalize_name applied to an input, then to its own result *)

MaxCanonChunks == 3

CanonChunks ==
    { Chars("Acme"), Chars(" "), Chars("&"), Chars(" Inc"), Chars("."),
      Chars(" co"), Chars("S.A."), Chars(" AG"), Chars("-"), <<"e'">> }

CanonInputs ==
    { PyStr(s) : s \in ChunkStrings(CanonChunks, MaxCanonChunks) }
        \cup { PyNone, PyNaN }

CanonIdle ==
    /\ cn_in = PyNone
    /\ cn_pc = "idle"
    /\ cn_out = <<>>
    /\ cn_out2 = <<>>

CanonInit ==
    /\ cn_in \in CanonInputs
    /\ cn_pc = "start"
    /\ cn_out = <<>>
    /\ cn_out2 = <<>>

CanonOnce ==
    /\ cn_pc = "start"
    /\ cn_out' = canonicalize_name(cn_in)
    /\ cn_pc' = "once"
    /\ UNCHANGED <<cn_in, cn_out2>>
    /\ UNCHANGED canonOthers

CanonTwice ==
    /\ cn_pc = "once"
    /\ cn_out2' = canonicalize_name(PyStr(cn_out))
    /\ cn_pc' = "twice"
    /\ UNCHANGED <<cn_in, cn_out>>
    /\ UNCHANGED canonOthers


-----------------------------------------------------------------------------
(* A ManufacturerAliasManager reading the rows of its alias sources one by  *)
(* one, with add_manual_alias calls in between                              *)

\* rows an alias source may hold
MaxRows == 2

\* one row of the alias table
Row(status, original_name, aliases, aliases_text, subsidiary_names, brands_text) ==
    [status |-> Chars(status), original_name |-> original_name,
     aliases |-> aliases, aliases_text |-> aliases_text,
     subsidiary_names |-> subsidiary_names, brands_text |-> brands_text]

\* the rows an alias source is made of
Rows ==
    { Row("found", CellText(Chars("3M")), CellList(<<Chars("MMM")>>),
          CellNaN, CellNaN, CellNaN),
      Row("found", CellText(Chars("Acme Inc")), CellList(<<Chars("MMM")>>),
          CellNaN, CellNaN, CellText(Chars("3M|--|H & M"))),
      Row("found", CellText(Chars("MMM")), CellList(<<Chars("3m"), Chars("Acme")>>),
          CellAbsent, CellAbsent, CellAbsent),
      Row("found", CellText(Chars("3M")), CellNaN, CellNaN, CellNaN, CellNaN),
      Row("not_found", CellText(Chars("Acme Inc")), CellList(<<Chars("MMM")>>),
          CellNaN, CellNaN, CellNaN),
      Row("found", CellText(Chars("Inc")), CellList(<<Chars("MMM")>>),
          CellNaN, CellNaN, CellNaN),
      Row("found", CellText(Chars("3M")), CellList(<<>>),
          CellText(Chars("3M Company|Acme")), CellNaN, CellNaN),
      Row("found", CellText(Chars("Acme Inc")), CellText(Chars("[MMM, Inc")),
          CellNaN, CellText(Chars("Germany|Acme Labs|Inc")), CellNaN) }

ManualCanonicals == { Chars("3M"), Chars("Acme Inc") }
ManualAliases == { Chars("MMM"), Chars("Inc") }

NoOp == [op |-> "none", c |-> <<>>, a |-> <<>>]

AliasIdle ==
    /\ manager = NewManager(TRUE, TRUE)
    /\ al_remaining = 0
    /\ al_dropped = 0
    /\ al_claimed = {}
    /\ al_last = NoOp
    /\ al_manual = FALSE

AliasInit ==
    /\ manager \in { NewManager(s, b) : s \in BOOLEAN, b \in BOOLEAN }
    /\ al_remaining \in 0..MaxRows
    /\ al_dropped = 0
    /\ al_claimed = {}
    /\ al_last = NoOp
    /\ al_manual = FALSE

\* load_aliases, a row with status other than 'found' or a blank name
LoadRowSkip(row) ==
    /\ al_remaining > 0
    /\ RowSkipped(row)
    /\ al_remaining' = al_remaining - 1
    /\ al_last' = [op |-> "skip", c |-> <<>>, a |-> <<>>]
    /\ UNCHANGED <<manager, al_dropped, al_claimed, al_manual>>
    /\ UNCHANGED aliasOthers

\* load_aliases, a row whose alias cell makes _parse_aliases_column raise:
\* the except clause of load_aliases ends the load, the rows after it are
\* never read
LoadRowRaise(row) ==
    /\ al_remaining > 0
    /\ ~RowSkipped(row)
    /\ ParseAliasesRaises(row.aliases)
    /\ al_remaining' = 0
    /\ al_dropped' = al_dropped + (al_remaining - 1)
    /\ al_last' = [op |-> "raised", c |-> <<>>, a |-> <<>>]
    /\ UNCHANGED <<manager, al_claimed, al_manual>>
    /\ UNCHANGED aliasOthers

\* load_aliases, a row that is read and stored
LoadRowStore(row) ==
    /\ al_remaining > 0
    /\ ~RowSkipped(row)
    /\ ~ParseAliasesRaises(row.aliases)
    /\ manager' = LoadRowBody(manager, row)
    /\ al_remaining' = al_remaining - 1
    /\ al_claimed' = al_claimed \cup
          { <<Strip(CellStr(row.original_name)), a>> : a \in SeqToSet(RowAliases(row)) }
    /\ al_last' = [op |-> "row", c |-> Strip(CellStr(row.original_name)), a |-> <<>>]
    /\ UNCHANGED <<al_dropped, al_manual>>
    /\ UNCHANGED aliasOthers

\* add_manual_alias(canonical_name, alias_name)
AddManualAlias(c, a) ==
    /\ manager' = add_manual_alias(manager, c, a)
    /\ al_last' = [op |-> "manual", c |-> c, a |-> a]
    /\ al_manual' = TRUE
    /\ UNCHANGED <<al_remaining, al_dropped, al_claimed>>
    /\ UNCHANGED aliasOthers

-----------------------------------------------------------------------------
(* A BKTree that terms are added to and that is searched *)

\* how many terms are added
MaxBkTerms == 3
\* the largest max_dist searched with
MaxDist == 2

BkTerms ==
    { Chars("AB1"), Chars("AB2"), Chars("AB12"), Chars("A1"), Chars("XY9") }
BkQueries == { Chars("AB2"), Chars("AB3"), Chars("A12"), <<>> }

NoQuery == [term |-> <<>>, max_dist |-> -1]

BkIdle ==
    /\ bk_tree = <<>>
    /\ bk_added = <<>>
    /\ bk_query = NoQuery
    /\ bk_result = <<>>

\* BKTree()
BkInit == BkIdle

\* bk.add(term)
BkAdd(term) ==
    /\ Len(bk_added) < MaxBkTerms
    /\ bk_tree' = BKTree_add(bk_tree, term)
    /\ bk_added' = Append(bk_added, term)
    /\ bk_query' = NoQuery
    /\ bk_result' = <<>>
    /\ UNCHANGED bkOthers

\* bk.search(term, max_dist)
BkSearch(term, max_dist) ==
    /\ bk_query' = [term |-> term, max_dist |-> max_dist]
    /\ bk_result' = BKTree_search(bk_tree, term, max_dist)
    /\ UNCHANGED <<bk_tree, bk_added>>
    /\ UNCHANGED bkOthers

-----------------------------------------------------------------------------
(* pn_variants applied to an input, then to a respelling of the input *)

MaxPnChunks == 3
PnChunks ==
    { Chars("HP"), Chars("-"), Chars(" "), Chars("123"), Chars("EA"),
      Chars("V1"), Chars("O"), Chars("l") }
PnInputs == { PyStr(s) : s \in ChunkStrings(PnChunks, MaxPnChunks) } \cup { PyNone }
PnManufacturers == { PyNone, PyStr(Chars("HP")), PyStr(Chars("Acme Inc")) }
NoParts == [prefix |-> <<>>, core_part |-> <<>>, suffixes |-> <<>>]

\* the decomposition made by a call that gets as far as step 2
PartsOf(pn, manufacturer_name, generated) ==
    IF IsStr(pn) /\ Strip(pn.v) # <<>>
    THEN Decomposition(Strip(pn.v), manufacturer_name, generated)
    ELSE NoParts

\* the spellings of a string that differ from it in letter case only, of
\* which the model tries the two uniform ones
CaseSpellings(pn) == IF IsStr(pn) THEN { PyStr(Upper(pn.v)), PyStr(Lower(pn.v)) } ELSE { pn }

PnIdle ==
    /\ pn_pc = "idle"
    /\ pn_in = PyNone
    /\ pn_mfr = PyNone
    /\ pn_gen = {}
    /\ pn_out = {}
    /\ pn_parts = NoParts
    /\ pn_in2 = PyNone
    /\ pn_out2 = {}

PnInit ==
    /\ pn_pc = "start"
    /\ pn_in \in PnInputs
    /\ pn_mfr \in PnManufacturers
    /\ pn_gen \in GeneratedFor(pn_mfr)
    /\ pn_out = {}
    /\ pn_parts = NoParts
    /\ pn_in2 = PyNone
    /\ pn_out2 = {}

\* variants = pn_variants(pn, manufacturer_name)
PnVariants ==
    /\ pn_pc = "start"
    /\ pn_pc' = "once"
    /\ pn_out' = pn_variants(pn_in, pn_mfr, pn_gen)
    /\ pn_parts' = PartsOf(pn_in, pn_mfr, pn_gen)
    /\ UNCHANGED <<pn_in, pn_mfr, pn_gen, pn_in2, pn_out2>>
    /\ UNCHANGED pnOthers

\* pn_variants(pn', manufacturer_name) for a respelling pn' of pn, in the
\* same process (the prefixes generated for the manufacturer are cached)
PnVariantsRespelled ==
    /\ pn_pc = "once"
    /\ pn_pc' = "twice"
    /\ \E respelled \in CaseSpellings(pn_in) :
          /\ pn_in2' = respelled
          /\ pn_out2' = pn_variants(respelled, pn_mfr, pn_gen)
    /\ UNCHANGED <<pn_in, pn_mfr, pn_gen, pn_out, pn_parts>>
    /\ UNCHANGED pnOthers

-----------------------------------------------------------------------------
(* generate_candidates for one row of df_a against a catalog df_b, run in  *)
(* one process and then again in another                                   *)

MaxCatalog == 2

Item(manufacturer, part_number, unspsc, gtin, title) ==
    [manufacturer |-> manufacturer, part_number |-> part_number, unspsc |-> unspsc,
     gtin |-> gtin, title |-> title, description |-> PyNone]

CandItemsA ==
    { Item(PyStr(Chars("HP")), PyStr(Chars("HP123")), PyStr(Chars("12345678")),
           PyStr(Chars("0012")), PyStr(Chars("M8 bolt"))),
      Item(PyNone, PyStr(Chars("HP123")), PyNone, PyNone, PyNone),
      Item(PyStr(Chars("MMM")), PyStr(Chars("12-3")), PyStr(Chars("1234")),
           PyStr(Chars("0")), PyNone),
      Item(PyNone, PyStr(Chars("9999")), PyNone, PyNone, PyNone) }

CandItemsB ==
    { Item(PyStr(Chars("HP")), PyStr(Chars("123")), PyStr(Chars("12345678")),
           PyNone, PyStr(Chars("m8 bolt"))),
      Item(PyStr(Chars("Acme Inc")), PyStr(Chars("HP123")), PyStr(Chars("1234567X")),
           PyStr(Chars("0012")), PyNone),
      Item(PyStr(Chars("3M")), PyStr(Chars("12-3")), PyStr(Chars("12349999")),
           PyStr(Chars("0")), PyStr(Chars("m8 nut"))),
      Item(PyNone, PyStr(Chars("l23")), PyNaN, PyStr(Chars("0012")), PyNone) }

\* the catalogs df_b: lists of at most MaxCatalog different items
CandCatalogs ==
    { q \in UNION { [1..n -> CandItemsB] : n \in 1..MaxCatalog } :
        \A i, j \in 1..Len(q) : q[i] = q[j] => i = j }

\* an alias registry in which MMM is an alias of 3M
CandRegistry == add_manual_alias(NewManager(FALSE, FALSE), Chars("3M"), Chars("MMM"))

Config(jw_mfr, pn_max_edit, max_cands_per_item, alias_manager) ==
    [jw_mfr |-> jw_mfr, pn_max_edit |-> pn_max_edit,
     max_cands_per_item |-> max_cands_per_item, alias_manager |-> alias_manager]

\* the defaults (jw_mfr = 0.90, pn_max_edit = 1, max_cands_per_item = 200),
\* a cap of one candidate with exact part numbers only, a cap of one
\* candidate with an alias registry, and part numbers up to 4 edits away
CandConfigs ==
    { Config(9000, 1, 200, PyNone), Config(9000, 0, 1, PyNone),
      Config(9000, 1, 1, CandRegistry), Config(9000, 4, 200, PyNone) }

NoItem == Item(PyNone, PyNone, PyNone, PyNone, PyNone)
NoConfig == Config(0, 0, 0, PyNone)
NoRun == [ran |-> FALSE, top |-> <<>>]

CandIdle ==
    /\ cand_pc = "idle"
    /\ cand_a = NoItem
    /\ cand_b = <<>>
    /\ cand_cfg = NoConfig
    /\ cand_cache = EmptyDict
    /\ cand_rows = <<>>
    /\ cand_bk = <<>>
    /\ cand_events = <<>>
    /\ cand_scores = NoScores
    /\ cand_top = <<>>
    /\ cand_prev = NoRun

CandInit ==
    /\ cand_pc = "start"
    /\ cand_a \in CandItemsA
    /\ cand_b \in CandCatalogs
    /\ cand_cfg \in CandConfigs
    /\ cand_cache = EmptyDict
    /\ cand_rows = <<>>
    /\ cand_bk = <<>>
    /\ cand_events = <<>>
    /\ cand_scores = NoScores
    /\ cand_top = <<>>
    /\ cand_prev = NoRun

\* generate_candidates up to the loop over df_a: the columns of df_b and
\* the indexes
CandIndex ==
    /\ cand_pc = "start"
    /\ cand_pc' = "indexed"
    /\ \E cache \in PrefixCaches(NamesOf(<<cand_a>> \o cand_b)) :
          \E rows \in PreparedFrames(cand_b, cache) :
              /\ cand_cache' = cache
              /\ cand_rows' = rows
              /\ cand_bk' = BuildBk(rows)
    /\ UNCHANGED <<cand_a, cand_b, cand_cfg, cand_events, cand_scores, cand_top, cand_prev>>
    /\ UNCHANGED candOthers

\* the body of the loop over df_a, for the row of df_a
CandScore ==
    /\ cand_pc = "indexed"
    /\ cand_pc' = "scored"
    /\ \E a \in PreparedRows(cand_a, cand_cache) :
          \E aliases_a \in Orderings(AliasesOf(cand_cfg.alias_manager, cand_a.manufacturer)) :
              cand_events' = ScoreEvents(a, cand_rows, cand_bk, cand_cfg.jw_mfr,
                                         cand_cfg.pn_max_edit, cand_cfg.alias_manager,
                                         aliases_a)
    /\ cand_scores' = Accumulate(NoScores, cand_events')
    /\ cand_top' = IF cand_scores'.keys # <<>>
                   THEN TopCandidates(cand_scores', cand_cfg.max_cands_per_item)
                   ELSE <<>>
    /\ UNCHANGED <<cand_a, cand_b, cand_cfg, cand_cache, cand_rows, cand_bk, cand_prev>>
    /\ UNCHANGED candOthers

\* the same call in another process: what the first call returned is kept
CandAgain ==
    /\ cand_pc = "scored"
    /\ ~cand_prev.ran
    /\ cand_pc' = "start"
    /\ cand_prev' = [ran |-> TRUE, top |-> cand_top]
    /\ cand_cache' = EmptyDict
    /\ cand_rows' = <<>>
    /\ cand_bk' = <<>>
    /\ cand_events' = <<>>
    /\ cand_scores' = NoScores
    /\ cand_top' = <<>>
    /\ UNCHANGED <<cand_a, cand_b, cand_cfg>>
    /\ UNCHANGED candOthers

-----------------------------------------------------------------------------
(* Pair features: src/product_er_toolkit.py.  A flag 1.0 / 0.0 is 1 / 0.   *)

\* is_short_variant without its first band: a part number of at most 5
\* characters is treated as one of 6 to 8
is_short_variant_NoShortBand(original_pn, variant) ==
    IF Len(original_pn) <= 8 THEN Len(variant) <= 3
    ELSE IF Len(original_pn) <= 12 THEN Len(variant) <= 4
    ELSE 10 * Len(variant) < 4 * Len(original_pn)

\* is_short_variant(original_pn, variant); var_len < orig_len * 0.4 is
\* 10 * var_len < 4 * orig_len (the float product decides the same way for
\* every length below 200)
is_short_variant(original_pn, variant) ==
    IF Len(original_pn) <= 5 THEN FALSE
    ELSE IF Len(original_pn) <= 8 THEN Len(variant) <= 3
    ELSE IF Len(original_pn) <= 12 THEN Len(variant) <= 4
    ELSE 10 * Len(variant) < 4 * Len(original_pn)

\* str(x) of a field of a record
PyToStr(x) == IF x = PyNone THEN Chars("None") ELSE x.v

\* "1.0 if ... else 0.0"
Flag(b) == IF b THEN 1 ELSE 0

\* "[v for v in pn_variants(...) if v]" and, if filter_short_variants,
\* "[v for v in pna if not is_short_variant(pn_a_orig, v)]", as a set
KeptVariants(variants, pn_orig, filter_short_variants) ==
    { v \in variants :
        v # <<>> /\ (filter_short_variants => ~is_short_variant(pn_orig, v)) }

\* pna (or pnb) of build_pair_features for a record whose normalized
\* manufacturer is mfr
FeatVariants(rec, mfr, cache, filter_short_variants) ==
    KeptVariants(pn_variants(rec.part_number, PyStr(mfr), cache[mfr]),
                 PyToStr(rec.part_number), filter_short_variants)

\* the hierarchical UNSPSC flags: both codes non-empty, at least n long and
\* equal in their first n characters
UnspscPrefixMatch(unspsc_a, unspsc_b, n) ==
    Flag(unspsc_a # <<>> /\ unspsc_b # <<>>
            /\ Len(unspsc_a) >= n /\ Len(unspsc_b) >= n
            /\ Take(unspsc_a, n) = Take(unspsc_b, n))

\* the UNSPSC features of build_pair_features
UnspscFeatures(unspsc_a, unspsc_b) ==
    [unspsc_exact |-> Flag(unspsc_a # <<>> /\ unspsc_b # <<>> /\ unspsc_a = unspsc_b),
     unspsc_segment_match |-> UnspscPrefixMatch(unspsc_a, unspsc_b, 2),
     unspsc_family_match |-> UnspscPrefixMatch(unspsc_a, unspsc_b, 4),
     unspsc_class_match |-> UnspscPrefixMatch(unspsc_a, unspsc_b, 6)]

\* re.sub(r'^[-_/\.\s]+', '', suffix)
RECURSIVE DropLeadingSeparators(_)
DropLeadingSeparators(s) ==
    IF s # <<>> /\ (IsVersionSeparator(Head(s)) \/ IsSpace(Head(s)))
    THEN DropLeadingSeparators(Tail(s)) ELSE s

\* _is_valid_suffix after the separators are removed: a word of
\* valid_suffixes, a version word, or a single letter
IsValidSuffixWord(suffix_clean) ==
    \/ Upper(suffix_clean) \in UnitWords \cup PackagingWords \cup ConditionWords
    \/ IsVersionWord(suffix_clean)
    \/ Len(suffix_clean) = 1 /\ IsLetter(suffix_clean[1])

_is_valid_suffix(suffix) ==
    suffix # <<>> /\ IsValidSuffixWord(DropLeadingSeparators(suffix))

\* _is_suffix_only_difference on the stripped, uppercased part numbers
SuffixOnlyClean(pn1_clean, pn2_clean) ==
    IF StartsWith(pn1_clean, pn2_clean) /\ Len(pn1_clean) > Len(pn2_clean)
    THEN _is_valid_suffix(Strip(Drop(pn1_clean, Len(pn2_clean))))
    ELSE IF StartsWith(pn2_clean, pn1_clean) /\ Len(pn2_clean) > Len(pn1_clean)
    THEN _is_valid_suffix(Strip(Drop(pn2_clean, Len(pn1_clean))))
    ELSE FALSE

_is_suffix_only_difference(pn1, pn2) ==
    SuffixOnlyClean(Upper(Strip(pn1)), Upper(Strip(pn2)))

MinOf(S) == CHOOSE x \in S : \A y \in S : x <= y

\* the tier of max_len / avg_orig_len, where avg_orig_len is half of
\* len_sum: percentage >= 0.8 is 2 * max_len / len_sum >= 8 / 10, and the
\* quotient of two small integers is at a bound only when it equals it
WeightTier(max_len, len_sum) ==
    IF len_sum = 0 THEN 0
    ELSE IF 5 * max_len >= 2 * len_sum THEN 4000
    ELSE IF 10 * max_len >= 3 * len_sum THEN 3000
    ELSE IF 5 * max_len >= len_sum THEN 2000
    ELSE 1000

\* calculate_pn_match_weight with the shortest matching variant for the longest
calculate_pn_match_weight_Shortest(pn_a, pn_b, matching_variants) ==
    IF matching_variants = {} THEN 0
    ELSE WeightTier(MinOf({ Len(v) : v \in matching_variants }), Len(pn_a) + Len(pn_b))

\* calculate_pn_match_weight(pn_a, pn_b, matching_variants), in
\* ten-thousandths
calculate_pn_match_weight(pn_a, pn_b, matching_variants) ==
    IF matching_variants = {} THEN 0
    ELSE WeightTier(MaxOf({ Len(v) : v \in matching_variants }), Len(pn_a) + Len(pn_b))

\* the pairs of variants that differ by a suffix only
SuffixOnlyPairs(pna, pnb) ==
    { xy \in pna \X pnb : _is_suffix_only_difference(xy[1], xy[2]) }

\* best_edit after the loops over pna and pnb: the least distance, and 0
\* once a pair differs by a suffix only and by at most 5 edits; 1.0 when a
\* side has no variant
BestEdit(pna, pnb) ==
    IF pna = {} \/ pnb = {} THEN 1
    ELSE IF \E xy \in SuffixOnlyPairs(pna, pnb) : levenshtein(xy[1], xy[2]) <= 5
    THEN Min2(MinOf({ levenshtein(xy[1], xy[2]) : xy \in pna \X pnb }), 0)
    ELSE MinOf({ levenshtein(xy[1], xy[2]) : xy \in pna \X pnb })

\* best_jw after the loops: it is updated before the suffix test, and the
\* jw the test raises to 0.95 is not read again
BestJw(pna, pnb) ==
    IF pna = {} \/ pnb = {} THEN 0
    ELSE MaxOf({ jaro_winkler(xy[1], xy[2]) : xy \in pna \X pnb })

\* suffix_only_match after the loops
SuffixOnlyMatch(pna, pnb) ==
    IF SuffixOnlyPairs(pna, pnb) # {} THEN 9000 ELSE 0

\* the part-number features of build_pair_features: matching_variants,
\* pn_exact_any, pn_edit, pn_jw (in ten-thousandths) and
\* pn_suffix_only_match (in ten-thousandths)
PnMatchFeatures(pna, pnb) ==
    [pna |-> pna, pnb |-> pnb, matching_variants |-> pna \cap pnb,
     pn_exact_any |-> Flag(pna \cap pnb # {}),
     pn_edit |-> BestEdit(pna, pnb), pn_jw |-> BestJw(pna, pnb),
     pn_suffix_only_match |-> SuffixOnlyMatch(pna, pnb)]

\* build_pair_features once the manufacturers are normalized
PairFeaturesOf(a, b, mfr_a, mfr_b, cache, filter_short_variants) ==
    UnspscFeatures(normalize_unspsc(a.unspsc), normalize_unspsc(b.unspsc))
      @@ PnMatchFeatures(FeatVariants(a, mfr_a, cache, filter_short_variants),
                         FeatVariants(b, mfr_b, cache, filter_short_variants))

\* build_pair_features(a, b, None, filter_short_variants): the UNSPSC and
\* the exact part-number features, given what
\* _generate_manufacturer_prefixes returns in this process
build_pair_features(a, b, cache, filter_short_variants) ==
    PairFeaturesOf(a, b, normalize_manufacturer(a.manufacturer),
                   normalize_manufacturer(b.manufacturer), cache,
                   filter_short_variants)

-----------------------------------------------------------------------------
(* build_pair_features on a pair of records *)

Record(manufacturer, part_number, unspsc) ==
    [manufacturer |-> manufacturer, part_number |-> part_number, unspsc |-> unspsc]

FeatRecords ==
    { Record(PyStr(Chars("3M")), PyStr(Chars("AGM-14NV4123414111-EA")),
             PyStr(Chars("31201504"))),
      Record(PyStr(Chars("3M")), PyStr(Chars("14NV4123414111")),
             PyStr(Chars("31201504"))),
      Record(PyStr(Chars("HP")), PyStr(Chars("HP-123456-EA")), PyStr(Chars("312015"))),
      Record(PyStr(Chars("HP")), PyStr(Chars("123456")), PyStr(Chars("3120150A"))),
      Record(PyNone, PyStr(Chars("HP123")), PyNone),
      Record(PyStr(Chars("Acme Inc")), PyStr(Chars("HP 123456")),
             PyStr(Chars(" 31201599 "))),
      Record(PyStr(Chars("HP")), PyStr(Chars("HP-123456-EA")),
             PyStr(Chars("3120150A"))),
      Record(PyStr(Chars("3M")), PyNone, PyStr(Chars("312015"))),
      Record(PyNone, PyStr(Chars("123")), PyStr(Chars("3"))),
      Record(PyNone, PyStr(Chars("123A")), PyStr(Chars("3"))) }

NoRecord == Record(PyNone, PyNone, PyNone)
NoFeatures == [ran |-> FALSE]

FeatIdle ==
    /\ feat_pc = "idle"
    /\ feat_a = NoRecord
    /\ feat_b = NoRecord
    /\ feat_filter = TRUE
    /\ feat_out = NoFeatures

FeatInit ==
    /\ feat_pc = "start"
    /\ feat_a \in FeatRecords
    /\ feat_b \in FeatRecords
    /\ feat_filter \in BOOLEAN
    /\ feat_out = NoFeatures

\* build_pair_features(a, b, filter_short_variants = feat_filter)
BuildPairFeatures ==
    /\ feat_pc = "start"
    /\ feat_pc' = "done"
    /\ \E cache \in PrefixCaches(NamesOf(<<feat_a, feat_b>>)) :
          feat_out' = build_pair_features(feat_a, feat_b, cache, feat_filter)
    /\ UNCHANGED <<feat_a, feat_b, feat_filter>>
    /\ UNCHANGED featOthers

-----------------------------------------------------------------------------
(* is_short_variant on an original part number and a variant *)

\* the longest part number and variant
MaxShortLen == 14

\* a string of n characters
Filler(n) == [i \in 1..n |-> "A"]

ShortIdle ==
    /\ sv_pc = "idle"
    /\ sv_original = <<>>
    /\ sv_variant = <<>>
    /\ sv_out = FALSE

ShortInit ==
    /\ sv_pc = "start"
    /\ sv_original \in { Filler(n) : n \in 0..MaxShortLen }
    /\ sv_variant \in { Filler(n) : n \in 0..MaxShortLen }
    /\ sv_out = FALSE

\* is_short_variant(sv_original, sv_variant)
IsShortVariant ==
    /\ sv_pc = "start"
    /\ sv_pc' = "done"
    /\ sv_out' = is_short_variant(sv_original, sv_variant)
    /\ UNCHANGED <<sv_original, sv_variant>>
    /\ UNCHANGED shortOthers

-----------------------------------------------------------------------------
(* Overall score of a pair: src/results_viewer/compare_api.py and          *)
(* src/query_database.py.  Scores are in millionths; a similarity in       *)
(* ten-thousandths times a weight in hundredths is a score in millionths.  *)

\* the features of build_enhanced_manufacturer_features; the two flags are
\* 0 or 1, the similarities are in ten-thousandths
MfrFeatures(mfr_exact, mfr_jw, mfr_alias_exact, mfr_canonical_jw, mfr_best_alias_jw) ==
    [mfr_exact |-> mfr_exact, mfr_jw |-> mfr_jw, mfr_alias_exact |-> mfr_alias_exact,
     mfr_canonical_jw |-> mfr_canonical_jw, mfr_best_alias_jw |-> mfr_best_alias_jw]

\* mfr_best_alias_jw of two canonical names that are not the same name
\* under mfr_alias_exact: 1.0 when the alias sets share a name, else the
\* best similarity of two aliases, and 0.0 for different canonical names
MfrBestAliasJw(alias_manager, canonical_a, canonical_b) ==
    IF canonical_a # canonical_b THEN 0
    ELSE IF get_aliases(alias_manager, canonical_a) \cap get_aliases(alias_manager, canonical_b) # {}
         THEN FixedPoint(1, 1)
    ELSE BestAliasJw(get_aliases(alias_manager, canonical_a),
                     get_aliases(alias_manager, canonical_b))

\* the alias features of a pair that is not exact, given the two canonical
\* names
AliasFeatures(mfr_jw, alias_manager, canonical_a, canonical_b) ==
    IF alias_manager = PyNone \/ canonical_a = PyNone \/ canonical_b = PyNone
    THEN MfrFeatures(0, mfr_jw, 0, 0, 0)
    ELSE IF canonical_a = canonical_b
    THEN MfrFeatures(0, mfr_jw, 1, FixedPoint(1, 1), FixedPoint(1, 1))
    ELSE MfrFeatures(0, mfr_jw, 0, jaro_winkler(canonical_a.v, canonical_b.v),
                     MfrBestAliasJw(alias_manager, canonical_a, canonical_b))

\* build_enhanced_manufacturer_features once the names are normalized
MfrFeaturesOf(mfr_a, mfr_b, mfr_a_norm, mfr_b_norm, alias_manager) ==
    IF mfr_a_norm # <<>> /\ mfr_a_norm = mfr_b_norm
    THEN MfrFeatures(1, FixedPoint(1, 1), 0, 0, 0)
    ELSE AliasFeatures(jaro_winkler(mfr_a_norm, mfr_b_norm), alias_manager,
                       IF alias_manager = PyNone THEN PyNone
                       ELSE get_canonical_name(alias_manager, mfr_a),
                       IF alias_manager = PyNone THEN PyNone
                       ELSE get_canonical_name(alias_manager, mfr_b))

build_enhanced_manufacturer_features(mfr_a, mfr_b, alias_manager) ==
    MfrFeaturesOf(mfr_a, mfr_b, normalize_manufacturer(mfr_a),
                  normalize_manufacturer(mfr_b), alias_manager)

\* mfr_exact of build_enhanced_manufacturer_features
MfrExactFlag(mfr_a, mfr_b) == Flag(mfr_a # <<>> /\ mfr_a = mfr_b)

\* mfr_alias_exact of build_enhanced_manufacturer_features, given the two
\* canonical names; features.get('mfr_alias_exact', 0) where it is not set
MfrAliasExactFlag(mfr_exact, canonical_a, canonical_b) ==
    Flag(mfr_exact = 0 /\ canonical_a # PyNone /\ canonical_b # PyNone
            /\ canonical_a = canonical_b)

\* jaro_winkler(mfr_a, mfr_b) if mfr_a and mfr_b else 0.0
MfrJw(mfr_a, mfr_b) ==
    IF mfr_a # <<>> /\ mfr_b # <<>> THEN jaro_winkler(mfr_a, mfr_b) ELSE 0

\* compare endpoint: mfr_similarity
ApiMfrSimilarity(mfr_exact, mfr_alias_exact, mfr_a, mfr_b) ==
    IF mfr_exact = 1 \/ mfr_alias_exact = 1 THEN FixedPoint(1, 1)
    ELSE MfrJw(mfr_a, mfr_b)

\* compare endpoint: pn_contrib
ApiPnContribution(sig) ==
    IF sig.pn_exact_any > 0 THEN sig.pn_exact_any * 400000 ELSE sig.pn_jw * 30

\* compare endpoint: synergy_boost
ApiSynergy(sig, mfr_exact, mfr_alias_exact) ==
    IF (sig.pn_exact_any = 1 \/ sig.pn_match_weight >= 4000)
          /\ (mfr_exact = 1 \/ mfr_alias_exact = 1)
    THEN 300000 ELSE 0

\* gtin_score_contribution, of both implementations
GtinContribution(sig) == IF sig.gtin_exact = 1 THEN 600000 ELSE 0

\* overall_score = min(sum of the contributions, 1.0), with the
\* manufacturer contribution beside it
Scored(mfr_contrib, others) ==
    [mfr |-> mfr_contrib, overall |-> Min2(mfr_contrib + others, 1000000)]

\* compare endpoint, given the manufacturer features
ApiScoreOf(sig, mfr_exact, mfr_alias_exact, mfr_a, mfr_b) ==
    Scored(ApiMfrSimilarity(mfr_exact, mfr_alias_exact, mfr_a, mfr_b) * 25,
           GtinContribution(sig) + ApiPnContribution(sig) + sig.text_unspsc
             + ApiSynergy(sig, mfr_exact, mfr_alias_exact))

\* compare endpoint, given the normalized manufacturers and their canonical
\* names in the registry
ApiScoreWith(sig, mfr_a, mfr_b, canonical_a, canonical_b) ==
    ApiScoreOf(sig, MfrExactFlag(mfr_a, mfr_b),
               MfrAliasExactFlag(MfrExactFlag(mfr_a, mfr_b), canonical_a, canonical_b),
               mfr_a, mfr_b)

\* the overall score of the compare endpoint for two records with the
\* manufacturers a and b and the other signals sig
ApiScore(a, b, sig, alias_manager) ==
    ApiScoreWith(sig, normalize_manufacturer(a), normalize_manufacturer(b),
                 get_canonical_name(alias_manager, a),
                 get_canonical_name(alias_manager, b))

\* DatabaseQuery.compare_products: the manufacturer contribution
DbMfrContribution(mfr_a_norm, mfr_b_norm) ==
    IF mfr_a_norm = mfr_b_norm THEN 250000 ELSE MfrJw(mfr_a_norm, mfr_b_norm) * 20

\* DatabaseQuery.compare_products: the part-number contribution
DbPnContribution(sig) == IF sig.pn_exact_any = 1 THEN 400000 ELSE sig.pn_jw * 30

\* DatabaseQuery.compare_products: synergy_boost
DbSynergy(sig, mfr_a_norm, mfr_b_norm) ==
    IF sig.pn_exact_any = 1 /\ mfr_a_norm = mfr_b_norm THEN 300000 ELSE 0

\* DatabaseQuery.compare_products, given the normalized manufacturers
DbScoreOf(sig, mfr_a_norm, mfr_b_norm) ==
    Scored(DbMfrContribution(mfr_a_norm, mfr_b_norm),
           DbPnContribution(sig) + sig.text_unspsc
             + DbSynergy(sig, mfr_a_norm, mfr_b_norm) + GtinContribution(sig))

\* the overall score of DatabaseQuery.compare_products for two records with
\* the manufacturers a and b and the other signals sig
DbScore(a, b, sig) ==
    DbScoreOf(sig, normalize_manufacturer(a), normalize_manufacturer(b))

-----------------------------------------------------------------------------
(* The overall score of one pair of records, by both implementations *)

ScoreManufacturers ==
    { PyNone, PyStr(Chars("3M")), PyStr(Chars("MMM")), PyStr(Chars("Acme Inc")),
      PyStr(Chars("Acmi")), PyStr(Chars("HP")) }

\* the signals of a pair other than the manufacturer: the exact and the
\* fuzzy part-number features, the GTIN flag, and the text and category
\* contributions together
Signals(pn_exact_any, pn_jw, pn_match_weight, gtin_exact, text_unspsc) ==
    [pn_exact_any |-> pn_exact_any, pn_jw |-> pn_jw, pn_match_weight |-> pn_match_weight,
     gtin_exact |-> gtin_exact, text_unspsc |-> text_unspsc]

ScoreSignals ==
    { Signals(0, 0, 0, 0, 0), Signals(0, 9000, 0, 0, 100000),
      Signals(1, FixedPoint(1, 1), 4000, 0, 0),
      Signals(1, FixedPoint(1, 1), 4000, 1, 100000) }

\* the registry of the compare endpoint: empty when the alias file is
\* missing
ScoreRegistries == { NewManager(TRUE, TRUE), CandRegistry }

NoSignals == Signals(0, 0, 0, 0, 0)
NoScore == [mfr |-> -1, overall |-> -1]

ScoreIdle ==
    /\ sc_a = PyNone
    /\ sc_b = PyNone
    /\ sc_sig = NoSignals
    /\ sc_registry = PyNone
    /\ sc_api = NoScore
    /\ sc_db = NoScore
    /\ sc_features = NoFeatures

ScoreInit ==
    /\ sc_a \in ScoreManufacturers
    /\ sc_b \in ScoreManufacturers
    /\ sc_sig \in ScoreSignals
    /\ sc_registry \in ScoreRegistries
    /\ sc_api = NoScore
    /\ sc_db = NoScore
    /\ sc_features = NoFeatures

\* the compare endpoint scores the pair
CompareApi ==
    /\ sc_api = NoScore
    /\ sc_api' = ApiScore(sc_a, sc_b, sc_sig, sc_registry)
    /\ UNCHANGED <<sc_a, sc_b, sc_sig, sc_registry, sc_db, sc_features>>
    /\ UNCHANGED scoreOthers

\* DatabaseQuery.compare_products scores the pair
CompareProducts ==
    /\ sc_db = NoScore
    /\ sc_db' = DbScore(sc_a, sc_b, sc_sig)
    /\ UNCHANGED <<sc_a, sc_b, sc_sig, sc_registry, sc_api, sc_features>>
    /\ UNCHANGED scoreOthers

\* build_enhanced_manufacturer_features(sc_a, sc_b, sc_registry)
ManufacturerFeatures ==
    /\ sc_features = NoFeatures
    /\ sc_features' = build_enhanced_manufacturer_features(sc_a, sc_b, sc_registry)
    /\ UNCHANGED <<sc_a, sc_b, sc_sig, sc_registry, sc_api, sc_db>>
    /\ UNCHANGED scoreOthers

-----------------------------------------------------------------------------
(* rare_tokens on a corpus of texts *)

\* the largest corpus
MaxTexts == 14

\* text i of a corpus in which the first with_aa texts hold the token aa and
\* the first with_bb texts the token bb; the one-character token c is in
\* every text
CorpusText(i, with_aa, with_bb) ==
    (IF i <= with_aa THEN Chars("aa ") ELSE <<>>)
        \o (IF i <= with_bb THEN Chars("bb ") ELSE <<>>) \o Chars("c")

Corpus(n, with_aa, with_bb) == [i \in 1..n |-> CorpusText(i, with_aa, with_bb)]

RareCorpora ==
    { Corpus(n[1], n[2], n[3]) :
        n \in { m \in (0..MaxTexts) \X (0..MaxTexts) \X (0..MaxTexts) :
                   m[2] <= m[1] /\ m[3] <= m[1] } }

RareMinDfs == {1, 2}

NoRarity == [ran |-> FALSE]

RareIdle ==
    /\ rt_texts = <<>>
    /\ rt_min_df = 0
    /\ rt_out = NoRarity

RareInit ==
    /\ rt_texts \in RareCorpora
    /\ rt_min_df \in RareMinDfs
    /\ rt_out = NoRarity

\* rare_tokens(rt_texts, min_df = rt_min_df)
RareTokens ==
    /\ rt_out = NoRarity
    /\ rt_out' = [ran |-> TRUE, rarity |-> rare_tokens(rt_texts, rt_min_df)]
    /\ UNCHANGED <<rt_texts, rt_min_df>>
    /\ UNCHANGED rareOthers

-----------------------------------------------------------------------------
(* calculate_pn_match_weight on two part numbers and their matching        *)
(* variants, then on the same part numbers and other matching variants     *)

\* the longest original part number and the longest matching variant
MaxWeightLen == 6
MaxMatchLen == 4

WeightPartNumbers == { Filler(n) : n \in 0..MaxWeightLen }
WeightMatches == SUBSET { Filler(n) : n \in 1..MaxMatchLen }

NoWeight == [ran |-> FALSE]

WeightIdle ==
    /\ mw_a = <<>>
    /\ mw_b = <<>>
    /\ mw_matching = {}
    /\ mw_out = NoWeight
    /\ mw_more = {}
    /\ mw_out2 = NoWeight

WeightInit ==
    /\ mw_a \in WeightPartNumbers
    /\ mw_b \in WeightPartNumbers
    /\ mw_matching \in WeightMatches
    /\ mw_out = NoWeight
    /\ mw_more = {}
    /\ mw_out2 = NoWeight

\* calculate_pn_match_weight(mw_a, mw_b, mw_matching)
CalculateWeight ==
    /\ mw_out = NoWeight
    /\ mw_out' = [ran |-> TRUE,
                   weight |-> calculate_pn_match_weight(mw_a, mw_b, mw_matching)]
    /\ UNCHANGED <<mw_a, mw_b, mw_matching, mw_more, mw_out2>>
    /\ UNCHANGED weightOthers

\* calculate_pn_match_weight(mw_a, mw_b, matching_variants) for other
\* matching variants
CalculateWeightAgain ==
    /\ mw_out # NoWeight
    /\ mw_out2 = NoWeight
    /\ \E matching_variants \in WeightMatches :
          /\ mw_more' = matching_variants
          /\ mw_out2' = [ran |-> TRUE,
                          weight |-> calculate_pn_match_weight(mw_a, mw_b, matching_variants)]
    /\ UNCHANGED <<mw_a, mw_b, mw_matching, mw_out>>
    /\ UNCHANGED weightOthers

-----------------------------------------------------------------------------
(* The two stripping loops of pn_variants, one iteration at a time: the    *)
(* while loop of _extract_all_suffixes, then the fallback loop of step 4   *)

LoopIdle ==
    /\ lp_pc = "idle"
    /\ lp_original = <<>>
    /\ lp_prefix = <<>>
    /\ lp_current = <<>>
    /\ lp_suffixes = <<>>
    /\ lp_steps = 0

\* before pn_variants is called
LoopInit ==
    /\ lp_pc = "start"
    /\ lp_original = <<>>
    /\ lp_prefix = <<>>
    /\ lp_current = <<>>
    /\ lp_suffixes = <<>>
    /\ lp_steps = 0

\* the state in which _extract_all_suffixes enters its loop, given what
\* _extract_manufacturer_prefix returned for the stripped part number
LoopEntry(original, pr) ==
    /\ lp_original' = original
    /\ lp_prefix' = pr[1]
    /\ lp_current' = Strip(pr[2])

\* pn_variants(pn, manufacturer_name) for a part number that is not blank,
\* up to the loop of _extract_all_suffixes
EnterLoop ==
    /\ lp_pc = "start"
    /\ lp_pc' = "suffixes"
    /\ \E pn \in PnInputs \ {PyNone}, manufacturer_name \in PnManufacturers :
          /\ Strip(pn.v) # <<>>
          /\ \E generated \in GeneratedFor(manufacturer_name) :
                LoopEntry(Strip(pn.v),
                          _extract_manufacturer_prefix(Strip(pn.v),
                              NormMfr(manufacturer_name), generated))
    /\ UNCHANGED <<lp_suffixes, lp_steps>>
    /\ UNCHANGED loopOthers

\* "if suffix and remaining != current" of _extract_all_suffixes
SuffixFound(r, current) == r[2] # <<>> /\ r[1] # current

\* an iteration of the loop of _extract_all_suffixes that finds a suffix
ExtractSuffix ==
    /\ lp_pc = "suffixes"
    /\ SuffixFound(_extract_unit_suffix(lp_current), lp_current)
    /\ lp_current' = Strip(_extract_unit_suffix(lp_current)[1])
    /\ lp_suffixes' = <<_extract_unit_suffix(lp_current)[2]>> \o lp_suffixes
    /\ lp_steps' = lp_steps + 1
    /\ UNCHANGED <<lp_pc, lp_original, lp_prefix>>
    /\ UNCHANGED loopOthers

\* the iteration that finds none ends the loop; step 4 runs its loop on the
\* stripped part number "if not (prefix or suffixes)"
SuffixesDone ==
    /\ lp_pc = "suffixes"
    /\ ~SuffixFound(_extract_unit_suffix(lp_current), lp_current)
    /\ IF lp_prefix = <<>> /\ lp_suffixes = <<>>
       THEN lp_pc' = "fallback" /\ lp_current' = lp_original /\ lp_steps' = 0
       ELSE lp_pc' = "done" /\ UNCHANGED <<lp_current, lp_steps>>
    /\ UNCHANGED <<lp_original, lp_prefix, lp_suffixes>>
    /\ UNCHANGED loopOthers

\* an iteration of the fallback loop in which a pattern strips current
FallbackStrip ==
    /\ lp_pc = "fallback"
    /\ FallbackPattern(1, lp_current) # 0
    /\ lp_current' = FallbackSub(FallbackPattern(1, lp_current), lp_current)
    /\ lp_steps' = lp_steps + 1
    /\ UNCHANGED <<lp_pc, lp_original, lp_prefix, lp_suffixes>>
    /\ UNCHANGED loopOthers

\* the iteration in which no pattern does ends the fallback loop
FallbackDone ==
    /\ lp_pc = "fallback"
    /\ FallbackPattern(1, lp_current) = 0
    /\ lp_pc' = "done"
    /\ UNCHANGED <<lp_original, lp_prefix, lp_current, lp_suffixes, lp_steps>>
    /\ UNCHANGED loopOthers

-----------------------------------------------------------------------------
(* Specifications *)

\* canonicalize_name, once and twice
InitCanon == CanonInit /\ AliasIdle /\ BkIdle /\ PnIdle /\ CandIdle /\ FeatIdle /\ ShortIdle /\ ScoreIdle /\ RareIdle /\ WeightIdle /\ LoopIdle
NextCanon == CanonOnce \/ CanonTwice
SpecCanon == InitCanon /\ [][NextCanon]_vars

\* the alias registry
InitAlias == AliasInit /\ CanonIdle /\ BkIdle /\ PnIdle /\ CandIdle /\ FeatIdle /\ ShortIdle /\ ScoreIdle /\ RareIdle /\ WeightIdle /\ LoopIdle
NextAlias ==
    \/ \E row \in Rows : LoadRowSkip(row)
    \/ \E row \in Rows : LoadRowRaise(row)
    \/ \E row \in Rows : LoadRowStore(row)
    \/ \E c \in ManualCanonicals, a \in ManualAliases : AddManualAlias(c, a)
SpecAlias == InitAlias /\ [][NextAlias]_vars

\* the BK-tree
InitBk == BkInit /\ CanonIdle /\ AliasIdle /\ PnIdle /\ CandIdle /\ FeatIdle /\ ShortIdle /\ ScoreIdle /\ RareIdle /\ WeightIdle /\ LoopIdle
NextBk ==
    \/ \E term \in BkTerms : BkAdd(term)
    \/ \E term \in BkQueries, max_dist \in 0..MaxDist : BkSearch(term, max_dist)
SpecBk == InitBk /\ [][NextBk]_vars

\* pn_variants
InitPn == PnInit /\ CanonIdle /\ AliasIdle /\ BkIdle /\ CandIdle /\ FeatIdle /\ ShortIdle /\ ScoreIdle /\ RareIdle /\ WeightIdle /\ LoopIdle
NextPn == PnVariants \/ PnVariantsRespelled
SpecPn == InitPn /\ [][NextPn]_vars

\* generate_candidates
InitCand == CandInit /\ CanonIdle /\ AliasIdle /\ BkIdle /\ PnIdle /\ FeatIdle /\ ShortIdle /\ ScoreIdle /\ RareIdle /\ WeightIdle /\ LoopIdle
NextCand == CandIndex \/ CandScore \/ CandAgain
SpecCand == InitCand /\ [][NextCand]_vars

\* build_pair_features
InitFeat == FeatInit /\ CanonIdle /\ AliasIdle /\ BkIdle /\ PnIdle /\ CandIdle /\ ShortIdle /\ ScoreIdle /\ RareIdle /\ WeightIdle /\ LoopIdle
NextFeat == BuildPairFeatures
SpecFeat == InitFeat /\ [][NextFeat]_vars

\* is_short_variant
InitShort == ShortInit /\ CanonIdle /\ AliasIdle /\ BkIdle /\ PnIdle /\ CandIdle /\ FeatIdle /\ ScoreIdle /\ RareIdle /\ WeightIdle /\ LoopIdle
NextShort == IsShortVariant
SpecShort == InitShort /\ [][NextShort]_vars

\* the overall score
InitScore == ScoreInit /\ CanonIdle /\ AliasIdle /\ BkIdle /\ PnIdle /\ CandIdle /\ FeatIdle /\ ShortIdle /\ RareIdle /\ WeightIdle /\ LoopIdle
NextScore == CompareApi \/ CompareProducts \/ ManufacturerFeatures
SpecScore == InitScore /\ [][NextScore]_vars

\* rare_tokens
InitRare == RareInit /\ CanonIdle /\ AliasIdle /\ BkIdle /\ PnIdle /\ CandIdle /\ FeatIdle /\ ShortIdle /\ ScoreIdle /\ WeightIdle /\ LoopIdle
NextRare == RareTokens
SpecRare == InitRare /\ [][NextRare]_vars

\* calculate_pn_match_weight
InitWeight == WeightInit /\ CanonIdle /\ AliasIdle /\ BkIdle /\ PnIdle /\ CandIdle /\ FeatIdle /\ ShortIdle /\ ScoreIdle /\ RareIdle /\ LoopIdle
NextWeight == CalculateWeight \/ CalculateWeightAgain
SpecWeight == InitWeight /\ [][NextWeight]_vars

\* the stripping loops of pn_variants
InitLoop == LoopInit /\ CanonIdle /\ AliasIdle /\ BkIdle /\ PnIdle /\ CandIdle /\ FeatIdle /\ ShortIdle /\ ScoreIdle /\ RareIdle /\ WeightIdle
NextLoop == EnterLoop \/ ExtractSuffix \/ SuffixesDone \/ FallbackStrip \/ FallbackDone
SpecLoop == InitLoop /\ [][NextLoop]_vars

-----------------------------------------------------------------------------
(* Claims about canonicalize_name (SpecCanon) *)

\* C8: canonicalize_name is idempotent, and empty or non-string input gives
\* the empty string.
C8_Idempotent ==
    /\ cn_pc = "twice" => cn_out2 = cn_out
    /\ (cn_pc \in {"once", "twice"} /\ (~IsStr(cn_in) \/ cn_in.v = <<>>))
           => cn_out = <<>>

\* an input with '&' and two trailing corporate suffixes has been
\* canonicalised twice, to a non-empty name
C8_Witness ==
    /\ cn_pc = "twice"
    /\ cn_in = PyStr(Chars("& co Inc"))
    /\ cn_out = Chars("AND")

-----------------------------------------------------------------------------
(* Claims about the alias registry (SpecAlias) *)

\* every canonical key under which a normalized alias is stored
CanonicalsHolding(a) ==
    { c \in DOMAIN manager.canonical_to_aliases :
        a \in manager.canonical_to_aliases[c] }

AllAliases ==
    UNION { manager.canonical_to_aliases[c] : c \in DOMAIN manager.canonical_to_aliases }

\* C1: every alias maps to exactly one canonical key: no alias is in the
\* alias sets of two canonical keys, and the canonical key it resolves to is
\* the one whose alias set holds it.
C1_AliasFunction ==
    \A a \in (AllAliases \cup DOMAIN manager.alias_to_canonical) \ {<<>>} :
        /\ Cardinality(CanonicalsHolding(a)) <= 1
        /\ get_canonical_name(manager, PyStr(a)) # PyNone
        /\ CanonicalsHolding(a) = { get_canonical_name(manager, PyStr(a)).v }

\* C2: after rows were loaded (and no manual alias added), the primary name
\* and every alias of every stored row resolve to the same canonical name.
\* Names whose normal form is empty, which no lookup finds, are left out.
C2_RowResolves ==
    ~al_manual =>
        \A pa \in al_claimed :
            (NormStr(pa[1]) # <<>> /\ NormStr(pa[2]) # <<>>) =>
                LET p == get_canonical_name(manager, PyStr(pa[1]))
                    a == get_canonical_name(manager, PyStr(pa[2]))
                IN  p # PyNone /\ a # PyNone /\ p = a

-----------------------------------------------------------------------------
(* Claims about the BK-tree (SpecBk) *)

\* the edit distance by its recursive definition
RECURSIVE EditDistance(_, _)
EditDistance(a, b) ==
    IF a = <<>> THEN Len(b)
    ELSE IF b = <<>> THEN Len(a)
    ELSE IF Head(a) = Head(b) THEN EditDistance(Tail(a), Tail(b))
    ELSE 1 + Min3(EditDistance(Tail(a), b), EditDistance(a, Tail(b)),
                  EditDistance(Tail(a), Tail(b)))

Distinct(q) == \A i, j \in 1..Len(q) : i # j => q[i] # q[j]

\* C9: for distinct added terms, search returns exactly the added terms
\* within max_dist of the query, each once and with its edit distance.
C9_SearchExact ==
    (bk_query # NoQuery /\ Distinct(bk_added)) =>
        /\ Distinct(bk_result)
        /\ SeqToSet(bk_result) =
              { <<t, EditDistance(bk_query.term, t)>> :
                  t \in { u \in SeqToSet(bk_added) :
                            EditDistance(bk_query.term, u) <= bk_query.max_dist } }

\* a term one edit away from the query, below two other nodes, is found with
\* max_dist 1 and it is not the whole tree
C9_Witness ==
    /\ bk_added = <<Chars("XY9"), Chars("AB1"), Chars("AB12")>>
    /\ bk_query = [term |-> Chars("AB2"), max_dist |-> 1]
    /\ bk_result = <<<<Chars("AB12"), 1>>, <<Chars("AB1"), 1>>>>

-----------------------------------------------------------------------------
(* Claims about pn_variants (SpecPn) *)

\* C5: for every part number pn and every spelling pn' of it that differs
\* in letter case only, pn_variants(pn, m) and pn_variants(pn', m) are equal
\* as sets, for every manufacturer context m.
C5_CaseInsensitive ==
    pn_pc = "twice" => pn_out2 = pn_out

\* the fully normalized form of a part number: whitespace and the separators
\* - _ / . removed, O and o replaced by 0, I and l replaced by 1, uppercased
FullyNormalized(s) ==
    Upper(OcrI(OcrO(SelectSeq(s, LAMBDA c : ~IsSpace(c) /\ ~IsVersionSeparator(c)))))

\* C6 as stated: for every non-empty part number pn, pn_variants(pn)
\* contains the fully normalized form of pn.
C6_ContainsNormalForm ==
    (pn_pc \in {"once", "twice"} /\ IsStr(pn_in) /\ pn_in.v # <<>>) =>
        FullyNormalized(pn_in.v) \in pn_out

\* C6, amended: for every part number pn whose fully normalized form is not
\* empty, pn_variants(pn) contains that form.
C6_ContainsNonEmptyNormalForm ==
    (pn_pc \in {"once", "twice"} /\ IsStr(pn_in) /\ FullyNormalized(pn_in.v) # <<>>) =>
        FullyNormalized(pn_in.v) \in pn_out

\* a part number with a separator, an O and an l has been expanded
C6_Witness ==
    /\ pn_pc = "once"
    /\ pn_in = PyStr(Chars("O-l"))
    /\ pn_out = { Chars("O-L"), Chars("OL"), Chars("0L"), Chars("01") }

\* whether a variant is just a word of the suffix catalog
IsBareSuffix(v) == \E k \in 1..4 : IsSuffixWord(k, v)

\* C7: for every input whose decomposition yields a prefix and/or suffixes,
\* no returned variant equals the extracted prefix alone and no returned
\* variant is just a word of the suffix catalog.
C7_NoBarePrefixOrSuffix ==
    (pn_pc \in {"once", "twice"} /\ (pn_parts.prefix # <<>> \/ pn_parts.suffixes # <<>>)) =>
        \A v \in pn_out : v # pn_parts.prefix /\ ~IsBareSuffix(v)

-----------------------------------------------------------------------------
(* Claims about generate_candidates (SpecCand) *)

\* row j of df_b and the row of df_a carry the same valid GTIN
GtinMatch(j) ==
    /\ ValidGtin(GtinKey(cand_a.gtin))
    /\ ValidGtin(GtinKey(cand_b[j].gtin))
    /\ GtinKey(cand_a.gtin) = GtinKey(cand_b[j].gtin)

ScoreOf(j) == IF j \in DOMAIN cand_scores.score THEN cand_scores.score[j] ELSE 0

\* C3 as stated: a B-item whose valid GTIN equals the A-item's is in the
\* A-item's candidate list and its score is at least 10, whatever the other
\* B-items and the cap max_cands_per_item are.
C3_GtinAlwaysListed ==
    cand_pc = "scored" =>
        \A j \in 1..Len(cand_b) :
            GtinMatch(j) => (j \in SeqToSet(cand_top) /\ ScoreOf(j) >= 100000)

\* C3, amended: a B-item whose valid GTIN equals the A-item's has a score of
\* at least 10, and it is in the A-item's candidate list whenever fewer than
\* max_cands_per_item other B-items have a score at least as high as its own.
C3_GtinListedWithinCap ==
    cand_pc = "scored" =>
        \A j \in 1..Len(cand_b) :
            GtinMatch(j) =>
                /\ j \in DOMAIN cand_scores.score
                /\ ScoreOf(j) >= 100000
                /\ (Cardinality({ k \in DOMAIN cand_scores.score \ {j} : ScoreOf(k) >= ScoreOf(j) })
                        < cand_cfg.max_cands_per_item
                    => j \in SeqToSet(cand_top))

\* with a cap of one candidate and two B-items scored, the B-item with the
\* A-item's GTIN is the one returned
C3_Witness ==
    /\ cand_pc = "scored"
    /\ cand_cfg.max_cands_per_item = 1
    /\ Len(cand_scores.keys) = 2
    /\ \E j \in 1..Len(cand_b) :
          GtinMatch(j) /\ cand_top = <<j>> /\ ScoreOf(j) >= 100000

\* C4: for identical catalogs and configuration, the candidate list returned
\* for the A-item is the same whatever order the variant sets and the alias
\* sets are iterated in: a second call returns what the first returned.
C4_Deterministic ==
    (cand_pc = "scored" /\ cand_prev.ran) => cand_top = cand_prev.top

RECURSIVE SumAmounts(_)
SumAmounts(events) ==
    IF events = <<>> THEN 0 ELSE Head(events).amount + SumAmounts(Tail(events))

\* the additions made for row j of df_b that are of one of the kinds
EventsOf(j, kinds) == SelectSeq(cand_events, LAMBDA e : e.j = j /\ e.kind \in kinds)

SignalKinds == MfrKinds \cup PnKinds \cup { "gtin", "unspsc", "rare" }

\* C10: a B-item that matches the A-item on the exact manufacturer and on an
\* exact part-number variant gets the synergy bonus 5.0 exactly once: its
\* score is the sum of its signal contributions plus 5.0, which is more than
\* its manufacturer signals alone and more than its part-number signals alone.
C10_SynergyOnce ==
    cand_pc = "scored" =>
        \A j \in 1..Len(cand_b) :
            (EventsOf(j, {"mfr"}) # <<>> /\ EventsOf(j, {"pn_exact"}) # <<>>) =>
                /\ Len(EventsOf(j, {"synergy"})) = 1
                /\ ScoreOf(j) = SumAmounts(EventsOf(j, SignalKinds)) + 50000
                /\ ScoreOf(j) > SumAmounts(EventsOf(j, MfrKinds))
                /\ ScoreOf(j) > SumAmounts(EventsOf(j, PnKinds))

\* a B-item with two manufacturer signals and two part-number signals has
\* been scored: 1.0 + 1.0 + 7.5 + 3.0 + 2.0 + 1.0 and the bonus 5.0
C10_Witness ==
    /\ cand_pc = "scored"
    /\ Len(cand_b) = 1
    /\ Len(EventsOf(1, MfrKinds)) = 2
    /\ Len(EventsOf(1, PnKinds)) = 2
    /\ EventsOf(1, {"mfr"}) # <<>>
    /\ EventsOf(1, {"pn_exact"}) # <<>>
    /\ ScoreOf(1) = 205000

-----------------------------------------------------------------------------
(* Claims about load_aliases (SpecAlias) *)

\* C11: load_aliases never aborts the batch on a malformed row: no row of
\* the source is left unread because a row before it had an alias cell that
\* could not be parsed (the rows left unread are any rows of the source,
\* rows with status 'found' among them)
C11_NeverAborts == al_dropped = 0

-----------------------------------------------------------------------------
(* Claims about build_pair_features (SpecFeat) *)

\* C12: for the pair A = (3M, AGM-14NV4123414111-EA) and
\* B = (3M, 14NV4123414111) the variant sets build_pair_features computes,
\* each with its record's manufacturer, intersect: pn_exact_any is 1
C12_EndToEndPair ==
    (/\ feat_pc = "done"
     /\ feat_a.manufacturer = PyStr(Chars("3M"))
     /\ feat_a.part_number = PyStr(Chars("AGM-14NV4123414111-EA"))
     /\ feat_b.manufacturer = PyStr(Chars("3M"))
     /\ feat_b.part_number = PyStr(Chars("14NV4123414111")))
        => (feat_out.matching_variants # {} /\ feat_out.pn_exact_any = 1)

\* the number of letters and digits of a name
AlnumCount(name) == Len(SelectSeq(name, LAMBDA c : IsLetter(c) \/ IsDigit(c)))

\* the number of letters, digits and whitespace characters of a name
AlnumOrSpaceCount(name) ==
    Len(SelectSeq(name, LAMBDA c : IsLetter(c) \/ IsDigit(c) \/ IsSpace(c)))

\* a subsidiary or brand candidate that is shorter than 3, or has fewer than
\* half of its characters alphanumeric, or contains a location name, or is a
\* bare corporate-suffix word
MustBeRejected(name) ==
    \/ Len(name) < 3
    \/ 2 * AlnumCount(name) < Len(name)
    \/ \E location \in location_words : Contains(Lower(name), location)
    \/ Lower(name) \in product_words

\* the same, with whitespace counted with the letters and digits
MustBeRejectedSpaced(name) ==
    \/ Len(name) < 3
    \/ 2 * AlnumOrSpaceCount(name) < Len(name)
    \/ \E location \in location_words : Contains(Lower(name), location)
    \/ Lower(name) \in product_words

-----------------------------------------------------------------------------
(* Claims about is_short_variant (SpecShort) *)

\* C14: is_short_variant(original, variant) is False whenever the variant is
\* at least as long as the original, for every length of the original (up
\* to 5, 6 to 8, 9 to 12, 13 and more)
C14_NotShortWhenNotShorter ==
    (sv_pc = "done" /\ Len(sv_variant) >= Len(sv_original)) => sv_out = FALSE

\* a variant as long as its original of 13 characters has been judged, and
\* so has a variant of 3 characters of an original of 3
C14_Witness ==
    /\ sv_pc = "done"
    /\ sv_out = FALSE
    /\ \/ Len(sv_original) = 13 /\ Len(sv_variant) = 13
       \/ Len(sv_original) = 3 /\ Len(sv_variant) = 3

-----------------------------------------------------------------------------
(* More claims about generate_candidates (SpecCand) *)

\* C15: for every configuration (jw_mfr, pn_max_edit, max_cands_per_item),
\* no B-item whose accumulated score is zero is in the candidate list
\* returned for the A-item
C15_NoZeroScoreListed ==
    cand_pc = "scored" => \A j \in SeqToSet(cand_top) : ScoreOf(j) # 0

\* C16: candidate generation for an A-item is independent and free of side
\* effects: no step changes the A-item, the catalog df_b or the
\* configuration with its alias registry, and the list returned for the
\* A-item depends on these only: a call that is made again, in whatever
\* worker, with whatever was processed before, returns the same list
C16_IndependentNoSideEffects ==
    [][/\ <<cand_a, cand_b, cand_cfg>>' = <<cand_a, cand_b, cand_cfg>>
       /\ (cand_pc' = "scored" /\ cand_prev'.ran) => cand_top' = cand_prev'.top]_vars

\* the only agreement of row j of df_b with the A-item is one exactly equal
\* variant: one addition for an exact variant and, besides it, nothing but
\* the BK-tree finding that variant at distance 0
OnlyOneExactVariant(j) ==
    /\ Len(EventsOf(j, {"pn_exact"})) = 1
    /\ \A i \in 1..Len(cand_events) :
          (cand_events[i].j = j /\ cand_events[i].kind # "pn_exact") =>
              (cand_events[i].kind = "pn_fuzzy" /\ cand_events[i].amount = 20000)

\* C17: a B-item whose only agreement with the A-item is one exactly equal
\* part-number variant (no manufacturer, category, GTIN or token match) has
\* the accumulated score 3.0 exactly
C17_ExactVariantScoresThree ==
    cand_pc = "scored" =>
        \A j \in 1..Len(cand_b) : OnlyOneExactVariant(j) => ScoreOf(j) = 30000

\* a category code of exactly 8 digits
EightDigits(code) == Len(code) = 8 /\ \A i \in 1..8 : IsDigit(code[i])

\* C18: a B-item whose category code is not exactly 8 digits (8 characters
\* that are not all digits, or any other length) is in none of the four
\* category indexes and gets no category score
C18_CategoryIndexEightDigits ==
    cand_pc \in {"indexed", "scored"} =>
        \A j \in 1..Len(cand_rows) :
            ~EightDigits(cand_rows[j].unspsc_clean) =>
                /\ \A n \in {2, 4, 6, 8} :
                      j \notin SeqToSet(unspsc_to_b(cand_rows, n,
                                                    Take(cand_rows[j].unspsc_clean, n)))
                /\ EventsOf(j, {"unspsc"}) = <<>>

-----------------------------------------------------------------------------
(* More claims about build_pair_features (SpecFeat) *)

\* C19: each of unspsc_exact, unspsc_class_match, unspsc_family_match and
\* unspsc_segment_match is 1 only if both category codes are well-formed
\* 8-digit strings: if either code has another length or a character that is
\* not a digit, all four flags are 0
C19_FlagsNeedEightDigits ==
    (/\ feat_pc = "done"
     /\ ~(EightDigits(normalize_unspsc(feat_a.unspsc))
            /\ EightDigits(normalize_unspsc(feat_b.unspsc))))
        => /\ feat_out.unspsc_exact = 0
           /\ feat_out.unspsc_class_match = 0
           /\ feat_out.unspsc_family_match = 0
           /\ feat_out.unspsc_segment_match = 0

-----------------------------------------------------------------------------
(* Claims about the overall score (SpecScore) *)

\* the manufacturer contribution as stated: 0.25 for manufacturers that
\* match exactly, jw x 0.2 for the others
StatedMfrContribution(mfr_a, mfr_b) ==
    IF mfr_a # <<>> /\ mfr_a = mfr_b THEN 250000 ELSE MfrJw(mfr_a, mfr_b) * 20

\* C20: in both overall-score computations the manufacturer contribution is
\* 0.25 when the manufacturers match exactly and jw x 0.2 when they match
\* fuzzily only, so at most 0.2 for a pair that is not exact; and both
\* computations give the same overall score for the same pair of records
C20_ManufacturerContribution ==
    (sc_api # NoScore /\ sc_db # NoScore) =>
        /\ sc_api.mfr = StatedMfrContribution(normalize_manufacturer(sc_a),
                                              normalize_manufacturer(sc_b))
        /\ sc_db.mfr = StatedMfrContribution(normalize_manufacturer(sc_a),
                                             normalize_manufacturer(sc_b))
        /\ (normalize_manufacturer(sc_a) # normalize_manufacturer(sc_b)
               => sc_api.mfr <= 200000 /\ sc_db.mfr <= 200000)
        /\ sc_api.overall = sc_db.overall

\* C21: when some pair of the filtered variants differs by a recognized
\* unit or version suffix only and their edit distance is at most 5, the
\* features are boosted: pn_suffix_only_match is 0.9, pn_edit is 0 and pn_jw
\* is at least 0.95
C21_SuffixOnlyBoost ==
    (/\ feat_pc = "done"
     /\ \E x \in feat_out.pna, y \in feat_out.pnb :
           _is_suffix_only_difference(x, y) /\ levenshtein(x, y) <= 5)
        => /\ feat_out.pn_suffix_only_match = 9000
           /\ feat_out.pn_edit = 0
           /\ feat_out.pn_jw >= 9500

\* C22: when the two normalized manufacturer names are equal and non-empty (mfr_exact is 1.0), mfr_jw, mfr_canonical_jw and mfr_best_alias_jw are all 1.0
C22_ExactStubsAreOne ==
    (sc_features # NoFeatures /\ sc_features.mfr_exact = 1)
        => /\ sc_features.mfr_jw = FixedPoint(1, 1)
           /\ sc_features.mfr_canonical_jw = FixedPoint(1, 1)
           /\ sc_features.mfr_best_alias_jw = FixedPoint(1, 1)

\* the number of texts a token occurs in
DocumentFrequency(texts, tok) ==
    Cardinality({ i \in 1..Len(texts) : tok \in extract_tokens(texts[i]) })

\* the tokens of the corpora
CorpusTokens == { Chars("aa"), Chars("bb"), Chars("c") }

\* C23 as stated: a token is retained if and only if min_df <= df <= 0.15 x N, for every corpus size N
C23_RetainedWithinRatio ==
    rt_out # NoRarity =>
        \A tok \in CorpusTokens :
            tok \in rt_out.rarity
                <=> /\ rt_min_df <= DocumentFrequency(rt_texts, tok)
                    /\ 100 * DocumentFrequency(rt_texts, tok) <= 15 * Len(rt_texts)

\* C23: a token is retained if and only if min_df <= df <= max(1, floor(0.15 x N)), and nothing else is retained
C23_RetainedWithinFlooredRatio ==
    rt_out # NoRarity =>
        /\ rt_out.rarity \subseteq CorpusTokens
        /\ \A tok \in CorpusTokens :
              tok \in rt_out.rarity
                  <=> /\ rt_min_df <= DocumentFrequency(rt_texts, tok)
                      /\ DocumentFrequency(rt_texts, tok) >= 1
                      /\ \/ DocumentFrequency(rt_texts, tok) = 1
                         \/ 100 * DocumentFrequency(rt_texts, tok) <= 15 * Len(rt_texts)

\* a corpus of 14 texts in which aa, in two texts, is retained and bb, in three, is not
C23_Witness ==
    /\ rt_out # NoRarity
    /\ Len(rt_texts) = MaxTexts
    /\ DocumentFrequency(rt_texts, Chars("aa")) = 2
    /\ DocumentFrequency(rt_texts, Chars("bb")) = 3
    /\ rt_out.rarity = { Chars("aa") }

\* C24: every suffix strip of pn_variants leaves a core of at least 3 characters: the core left by _extract_all_suffixes when it found a suffix, and every variant the fallback stripping adds when no prefix and no suffix were found
C24_SuffixStripLeavesCore ==
    (pn_pc # "start" /\ pn_pc # "idle" /\ IsStr(pn_in) /\ Strip(pn_in.v) # <<>>) =>
        /\ pn_parts.suffixes # <<>> => Len(pn_parts.core_part) >= 3
        /\ (pn_parts.prefix = <<>> /\ pn_parts.suffixes = <<>>) =>
              \A v \in FallbackVariants(Strip(pn_in.v)) :
                  Upper(v) \in pn_out => Len(v) >= 3

\* the length of the longest of a set of variants, 0 for none
LongestOf(matching_variants) == MaxOf({0} \cup { Len(v) : v \in matching_variants })

\* 100 x (longest matching variant) / (average original length), rounded down
MatchPercent(pn_a, pn_b, matching_variants) ==
    (200 * LongestOf(matching_variants)) \div (Len(pn_a) + Len(pn_b))

\* the tier of a percentage r: 0.4 if r >= 0.8, 0.3 if r >= 0.6, 0.2 if r >= 0.4, else 0.1
StatedTier(percent) ==
    IF percent >= 80 THEN 4000 ELSE IF percent >= 60 THEN 3000
    ELSE IF percent >= 40 THEN 2000 ELSE 1000

\* C25: calculate_pn_match_weight returns 0.0 for no matching variants and otherwise the tier of r = longest matching variant / average original length; the result is one of 0.0, 0.1, 0.2, 0.3, 0.4 and is non-decreasing in the longest matching length
C25_WeightIsTierOfRatio ==
    mw_out.ran =>
        /\ mw_matching = {} => mw_out.weight = 0
        /\ (mw_matching # {} /\ Len(mw_a) + Len(mw_b) > 0)
              => mw_out.weight = StatedTier(MatchPercent(mw_a, mw_b, mw_matching))
        /\ mw_out.weight \in {0, 1000, 2000, 3000, 4000}
        /\ (mw_out2.ran /\ LongestOf(mw_more) >= LongestOf(mw_matching))
              => mw_out2.weight >= mw_out.weight

\* part numbers of 6 and 4 characters: a longest match of 4 is at the bound 0.8 and weighs 0.4, a longest match of 1 weighs 0.1
C25_Witness ==
    /\ mw_out.ran /\ mw_out2.ran
    /\ Len(mw_a) = 6 /\ Len(mw_b) = 4
    /\ LongestOf(mw_matching) = 1 /\ mw_out.weight = 1000
    /\ LongestOf(mw_more) = 4 /\ Cardinality(mw_more) > 1 /\ mw_out2.weight = 4000

\* the canonical key alias_to_canonical has for a normalized alias, in a set
MappedCanonical(a) ==
    IF a \in DOMAIN manager.alias_to_canonical THEN { manager.alias_to_canonical[a] } ELSE {}

\* the canonical keys either map knows
KnownCanonicals ==
    DOMAIN manager.canonical_to_aliases
        \cup { manager.alias_to_canonical[a] : a \in DOMAIN manager.alias_to_canonical }

\* C26: the two maps of the registry agree: for every non-empty normalized alias a and canonical key c, alias_to_canonical[a] is c if and only if a is in canonical_to_aliases[c]
C26_MapsAgree ==
    \A a \in (AllAliases \cup DOMAIN manager.alias_to_canonical) \ {<<>>} :
        \A c \in KnownCanonicals :
            c \in MappedCanonical(a) <=> a \in AliasesAt(manager, c)

\* C27: every key c of canonical_to_aliases is a fixed point of resolution: get_canonical_name(c) is c
C27_CanonicalKeysResolveToThemselves ==
    \A c \in DOMAIN manager.canonical_to_aliases :
        get_canonical_name(manager, PyStr(c)) = PyStr(c)

\* C28: immediately after add_manual_alias(c, a) with c and a both normalizing to non-empty strings, is_alias_of(c, a) is True and get_canonical_name(a) is normalize_manufacturer(c)
C28_ManualAliasResolves ==
    (al_last.op = "manual" /\ NormStr(al_last.c) # <<>> /\ NormStr(al_last.a) # <<>>) =>
        /\ is_alias_of(manager, PyStr(al_last.c), PyStr(al_last.a))
        /\ get_canonical_name(manager, PyStr(al_last.a)) = PyStr(NormStr(al_last.c))

\* C29: the category flags of build_pair_features are hierarchically consistent: unspsc_exact = 1 implies unspsc_class_match = 1, which implies unspsc_family_match = 1, which implies unspsc_segment_match = 1
C29_CategoryFlagsHierarchical ==
    feat_pc = "done" =>
        /\ feat_out.unspsc_exact = 1 => feat_out.unspsc_class_match = 1
        /\ feat_out.unspsc_class_match = 1 => feat_out.unspsc_family_match = 1
        /\ feat_out.unspsc_family_match = 1 => feat_out.unspsc_segment_match = 1

\* C30: the loops of pn_variants terminate: every iteration of the suffix-extraction loop and of the fallback loop that goes on strictly shortens current, and neither loop makes more than len(pn) iterations
C30_LoopsTerminate ==
    [][/\ lp_pc' = lp_pc => Len(lp_current') < Len(lp_current)
       /\ lp_steps' <= Len(lp_original')]_vars

\* the suffix-extraction loop ended after two iterations that found a suffix
C30_Witness ==
    /\ lp_pc = "done"
    /\ Len(lp_suffixes) = 2
    /\ lp_steps = 2
    /\ Len(lp_current) < Len(lp_original)

=============================================================================
